---- MODULE Spec2Model ----
(***************************************************************************)
(* Riddi: the offscreen synthesis-and-playback coordinator                 *)
(* (offscreen.ts) and the background service worker's playback state.      *)
(*                                                                         *)
(* The offscreen document is one event loop.  Every action below is one    *)
(* run-to-next-await segment of a handler or coroutine: the code between   *)
(* two suspension points runs atomically, and any other handler may run    *)
(* while a coroutine is suspended.  Consecutive awaits with no access to   *)
(* shared state between them are one suspension point.                     *)
(***************************************************************************)
EXTENDS Integers, Sequences, FiniteSets, TLC

\* ---------------------------------------------------------------- bounds
MaxRequests == 2      \* synthesize requests received by the offscreen document
MaxChunks == 3        \* chunks of one request's text
PlayChunks == 2       \* chunks of the request under Spec
DepthChunks == 5      \* chunks of the request under SpecDepth
MaxCmds == 2          \* pause / resume / stop commands received
MaxFaults == 1        \* steps that throw
MaxBgCmds == 3        \* content / popup messages received by the service worker
MaxInfers == 2        \* _infer calls in flight together
MaxSteps == 2         \* largest totalStep of an _infer call
MaxElements == 2      \* elements of the page
MaxTextLen == 5       \* characters of a text given to chunkText
MaxBudget == 4        \* largest maxLen given to chunkText with such a text
MaxPlainLen == 4      \* characters of a text given to preprocessText
MaxPasses == 2        \* calls of preprocessText, each on the result of the one before
MaxSamples == 3       \* samples given to writeWavFile
MaxStreams == 2       \* synthesizeStreaming calls in flight together
MaxStreamChunks == 3  \* chunks of the text given to synthesizeStreaming
MaxReadyCalls == 3    \* calls of ensureOffscreenReady
OverlapChunks == 2    \* chunks of all texts together when requests overlap
OverlapCmds == 1       \* commands received when requests overlap
ResumeChunks == 2     \* chunks of the request under SpecResume
ResumeCmds == 2       \* pause / resume commands under SpecResume
Steps == 1            \* settings.qualitySteps of every request

\* ------------------------------------------------------ program constants
SHORT_TEXT_THRESHOLD == 100
LONG_TEXT_THRESHOLD == 200
SHORT_DURATION_THRESHOLD == 3

\* ----------------------------------------------------------------- inputs
Requests == 1..MaxRequests
NoRequest == 0                       \* activeRequestId = null
ChunkLens == {50, 250}               \* chunk text lengths: a heading, a long paragraph
Voices == {"M1", "F1"}
NoVoice == "null"
MostChunks == IF DepthChunks > MaxChunks THEN DepthChunks ELSE MaxChunks
Texts == UNION {[1..n -> ChunkLens] : n \in 0..MostChunks}   \* getChunks(request.text)
ChunkIdx == 0..(MostChunks - 1)

VARIABLES
    \* offscreen module state
    audioContext,      \* "null" | "running" | "suspended"  (audioContext?.state)
    textToSpeech,      \* TRUE once loaded
    currentStyle,      \* voice whose style is cached, or NoVoice
    currentVoice,
    activeRequestId,
    audioQueue,        \* sequence of sources; a source is named by its request
    nextPlayTime,
    isPlaying,
    \* locals of each synthesizeAndPlay invocation, by request id
    pc,                \* the await the coroutine is suspended at
    text,              \* textChunks, as the sequence of chunk lengths
    voice,             \* request.settings.voice
    buffer,            \* sequence of [index, duration]
    nextToSynthesize,
    nextToPlay,
    prefillI,          \* loop counter of the pre-fill loop
    chunk,             \* the chunk taken from the buffer in this iteration
    task,              \* state of the synthesizeNext call for each chunk index
    taskStep,          \* denoising iterations done by that call's inference
    synthesisPromises, \* chunk indices launched in this play iteration
    targetBuffer,      \* getTargetBufferSize() of this play iteration
    src,               \* the request's AudioBufferSourceNode: none/playing/stopped
    \* observation (what was sent to the background, what started to sound)
    played,            \* chunkIndex of every tts-chunk-playing sent, in order
    sounded,           \* chunk index of every playChunkAndWait started, in order
    terminal,          \* tts-complete / tts-error sent, in order
    cancelled,         \* "no" | "stop" | "superseded"
    lateEv,            \* kinds of events sent after the request was cancelled
    threw,             \* the coroutine entered its catch block
    pausedChunks,      \* chunks that were sounding when a pause was processed
    styleLoads,        \* voice of every loadVoiceStyle call, in order
    ttsLoads,          \* loadTextToSpeech calls so far
    \* environment
    nextReq,           \* requests received so far
    reqsLeft,          \* requests the environment may still send
    chunksLeft,        \* chunks the texts of those requests may still hold
    cmdsLeft,          \* pause / resume / stop commands it may still send
    faultsLeft,        \* steps that may still throw
    envVoices,         \* voices the requests ask for
    \* background service worker (service-worker.ts)
    playbackState,     \* [status, currentChunk, totalChunks]
    bgActiveRequestId, \* the service worker's own activeRequestId
    activeTabId,
    handler,           \* the handler of the n-th content / popup message
    bgCount,           \* content / popup messages received so far
    highlightMsg,      \* the last highlight-chunk message sent to a tab
    lastMsg,           \* the last message of the offscreen document handled
    offPhase,          \* what the offscreen document may still send for a request
    \* TextToSpeech._infer (lib/tts/index.ts), by call
    stage,             \* the session run the call awaits
    totalStep,
    inferStep,         \* step, the loop counter of the denoising loop
    inferLog,          \* session runs and progress callbacks of the call, in order
    liveTensors,       \* tensors the call created or received and has not disposed
    \* the page and the highlighter (highlight.ts)
    hasClassAttr,      \* the element has a class attribute
    classList,         \* the tokens of the element's class attribute
    childNodes,        \* the element's children: text nodes and word spans
    articleTextBlocks, \* elements of the extracted article
    currentHighlightElements,
    originalHTMLMap,   \* element -> saved innerHTML, or undefined
    wordHighlightTimeout,  \* a word timer is pending
    currentWordIndex,
    currentWords,      \* the word spans, as <<element, child index>>
    currentChunkIndex,
    msPerWord,         \* msPerWord of the animation that set the timer
    wordDelay,         \* the delay of the pending word timer in ms, 0 when none
    animation,         \* durationMs and startIndex of the last startWordAnimation
    visited,           \* the word indices it has highlighted, in order
    markupBefore,      \* the markup each element had before any highlighting
    highlighted,       \* elements that were highlighted at some time
    \* chunkText (lib/tts/index.ts): one call
    rawText,           \* text, as a sequence of characters
    maxLen,
    chunks,            \* the chunks returned
    chunked,           \* chunkText has returned
    \* UnicodeProcessor.preprocessText (lib/tts/index.ts), applied to its own result
    plainText,         \* the text given to the first call
    normalized,        \* what the calls so far returned, in order
    \* writeWavFile (lib/tts/index.ts): one call
    audioData,         \* samples, in thousandths
    sampleRate,
    wavFile,           \* the bytes of the buffer returned, <<>> before the return
    \* TextToSpeech.synthesizeStreaming (lib/tts/index.ts)
    streamPc,          \* where the call stands
    streamTotal,       \* textList.length
    streamI,           \* i, the loop counter
    streamReady,       \* the chunk indices onChunkReady was called with, in order
    streamLog,         \* starts and ends of the call's _infer calls, in order
    \* ensureOffscreenReady (background/service-worker.ts)
    docState,          \* the offscreen document: "none", "creating" or "loaded"
    readyMsg,          \* the document's 'ready' message is on its way
    offscreenReady,
    offscreenReadyPromise,   \* the promise, by the call that made it, or NoPromise
    offscreenReadyResolver,  \* the promise it resolves, or NoPromise
    resolvedPromises,  \* the promises that were resolved
    ensurePc,          \* where each call of ensureOffscreenReady stands
    ensureAwaits       \* the promise the call awaits

offGlobals == <<audioContext, textToSpeech, currentStyle, currentVoice,
                activeRequestId, audioQueue, nextPlayTime, isPlaying>>
locals == <<pc, text, voice, buffer, nextToSynthesize, nextToPlay, prefillI,
            chunk, task, taskStep, synthesisPromises, targetBuffer, src>>
hist == <<played, sounded, terminal, cancelled, lateEv, threw, pausedChunks, styleLoads, ttsLoads>>
env == <<nextReq, reqsLeft, chunksLeft, cmdsLeft, faultsLeft, envVoices>>
offVars == <<offGlobals, locals, hist, env>>
bgVars == <<playbackState, bgActiveRequestId, activeTabId, handler, bgCount, offPhase,
            highlightMsg, lastMsg>>
inferVars == <<stage, totalStep, inferStep, inferLog, liveTensors>>
pageVars == <<hasClassAttr, classList, childNodes, articleTextBlocks,
              currentHighlightElements, originalHTMLMap, wordHighlightTimeout,
              currentWordIndex, currentWords, currentChunkIndex, msPerWord,
              wordDelay, animation, visited, markupBefore, highlighted>>
chunkVars == <<rawText, maxLen, chunks, chunked>>
normVars == <<plainText, normalized>>
wavVars == <<audioData, sampleRate, wavFile>>
streamVars == <<streamPc, streamTotal, streamI, streamReady, streamLog>>
readyVars == <<docState, readyMsg, offscreenReady, offscreenReadyPromise,
               offscreenReadyResolver, resolvedPromises, ensurePc, ensureAwaits>>
libVars == <<inferVars, pageVars, chunkVars, normVars, wavVars, streamVars, readyVars>>
notInferVars == <<offVars, bgVars, pageVars, chunkVars, normVars, wavVars, streamVars, readyVars>>
notPageVars == <<offVars, bgVars, inferVars, chunkVars, normVars, wavVars, streamVars, readyVars>>
notChunkVars == <<offVars, bgVars, inferVars, pageVars, normVars, wavVars, streamVars, readyVars>>
notNormVars == <<offVars, bgVars, inferVars, pageVars, chunkVars, wavVars, streamVars, readyVars>>
notWavVars == <<offVars, bgVars, inferVars, pageVars, chunkVars, normVars, streamVars, readyVars>>
notStreamVars == <<offVars, bgVars, inferVars, pageVars, chunkVars, normVars, wavVars, readyVars>>
notReadyVars == <<offVars, bgVars, inferVars, pageVars, chunkVars, normVars, wavVars, streamVars>>
vars == <<offVars, bgVars, libVars>>

Min(a, b) == IF a < b THEN a ELSE b
Max(a, b) == IF a > b THEN a ELSE b

RECURSIVE SumDur(_)
SumDur(s) == IF s = <<>> THEN 0 ELSE Head(s).duration + SumDur(Tail(s))

Remove(q, x) == SelectSeq(q, LAMBDA y : y # x)

totalChunks(r) == Len(text[r])

\* The audio seconds synthesizeChunk produces for a chunk: the duration
\* predictor's output, a function of the chunk text (short text, short audio).
chunkDuration(len) == IF len < 100 THEN 2 ELSE 4

Start ==
    /\ audioContext = "null"
    /\ textToSpeech = FALSE
    /\ currentStyle = NoVoice
    /\ currentVoice = NoVoice
    /\ activeRequestId = NoRequest
    /\ audioQueue = <<>>
    /\ nextPlayTime = 0
    /\ isPlaying = FALSE
    /\ pc = [r \in Requests |-> "idle"]
    /\ text = [r \in Requests |-> <<>>]
    /\ voice = [r \in Requests |-> NoVoice]
    /\ buffer = [r \in Requests |-> <<>>]
    /\ nextToSynthesize = [r \in Requests |-> 0]
    /\ nextToPlay = [r \in Requests |-> 0]
    /\ prefillI = [r \in Requests |-> 0]
    /\ chunk = [r \in Requests |-> [index |-> -1, duration |-> 0]]
    /\ task = [r \in Requests |-> [i \in ChunkIdx |-> "none"]]
    /\ taskStep = [r \in Requests |-> [i \in ChunkIdx |-> 0]]
    /\ synthesisPromises = [r \in Requests |-> {}]
    /\ targetBuffer = [r \in Requests |-> 0]
    /\ src = [r \in Requests |-> "none"]
    /\ played = [r \in Requests |-> <<>>]
    /\ sounded = [r \in Requests |-> <<>>]
    /\ terminal = [r \in Requests |-> <<>>]
    /\ cancelled = [r \in Requests |-> "no"]
    /\ lateEv = [r \in Requests |-> {}]
    /\ threw = [r \in Requests |-> FALSE]
    /\ pausedChunks = [r \in Requests |-> {}]
    /\ styleLoads = <<>>
    /\ ttsLoads = 0
    /\ nextReq = 0

\* ------------------------------------------------------------ observation
\* An event of kind k sent for request r: it is late when r was cancelled.
Late(r, k) == [lateEv EXCEPT ![r] = IF cancelled[r] # "no" THEN @ \cup {k} ELSE @]

InQueue(r) == \E i \in 1..Len(audioQueue) : audioQueue[i] = r

\* The request's current chunk is audible.
Sounding(r) == src[r] = "playing" /\ InQueue(r) /\ audioContext = "running"

\* --------------------------------------------------- offscreen: audio state
\* stopAllAudio / pause: source.stop() for every source in audioQueue.  A
\* stopped source fires 'ended' later, as an event of its own.
stopSources == [r \in Requests |-> IF InQueue(r) THEN "stopped" ELSE src[r]]

\* A faulty variant: the sources are stopped but audioQueue is not emptied.
stopAllAudioKeepsQueue(playing) ==
    /\ src' = stopSources
    /\ audioQueue' = audioQueue
    /\ isPlaying' = playing
    /\ nextPlayTime' = 0

\* stopAllAudio(): the audio fields it leaves.
stopAllAudio(playing) ==
    /\ src' = stopSources
    /\ audioQueue' = <<>>
    /\ isPlaying' = playing
    /\ nextPlayTime' = 0

\* ------------------------------------------- synthesizeAndPlay: the coroutine
\* The catch block is entered: the coroutine awaits debug('synthesis-error').
Throw(r) ==
    /\ pc' = [pc EXCEPT ![r] = "catch"]
    /\ threw' = [threw EXCEPT ![r] = TRUE]

\* routeMessage 'synthesize': synthesizeAndPlay runs to its first await.
Synthesize(r) ==
    /\ UNCHANGED <<bgVars, libVars>>
    /\ r = nextReq + 1
    /\ reqsLeft > 0
    /\ nextReq' = r
    /\ reqsLeft' = reqsLeft - 1
    /\ \E t \in Texts, v \in envVoices :
          /\ Len(t) <= chunksLeft
          /\ chunksLeft' = chunksLeft - Len(t)
          /\ text' = [text EXCEPT ![r] = t]
          /\ voice' = [voice EXCEPT ![r] = v]
    /\ activeRequestId' = r
    /\ pc' = [pc EXCEPT ![r] = "ctx"]
    /\ cancelled' = [q \in Requests |->
                        IF q = activeRequestId /\ q # r THEN "superseded" ELSE cancelled[q]]
    /\ UNCHANGED <<audioContext, textToSpeech, currentStyle, currentVoice, audioQueue,
                   nextPlayTime, isPlaying, buffer, nextToSynthesize, nextToPlay, prefillI,
                   chunk, task, taskStep, synthesisPromises, targetBuffer, src, played, sounded,
                   terminal, lateEv, threw, pausedChunks, styleLoads, ttsLoads, cmdsLeft, faultsLeft, envVoices>>

\* ensureAudioContext(), then await debug('ensuring-tts').
EnsureAudioContext(r) ==
    /\ UNCHANGED <<bgVars, libVars>>
    /\ pc[r] = "ctx"
    /\ audioContext' = "running"
    /\ pc' = [pc EXCEPT ![r] = "tts"]
    /\ UNCHANGED <<textToSpeech, currentStyle, currentVoice, activeRequestId, audioQueue,
                   nextPlayTime, isPlaying, text, voice, buffer, nextToSynthesize,
                   nextToPlay, prefillI, chunk, task, taskStep, synthesisPromises, targetBuffer, src,
                   hist, env>>

\* ensureTextToSpeech(): returns at once when loaded, else awaits the load.
EnsureTextToSpeech(r) ==
    /\ UNCHANGED <<bgVars, libVars>>
    /\ pc[r] = "tts"
    /\ pc' = [pc EXCEPT ![r] = IF textToSpeech THEN "style" ELSE "ttsload"]
    /\ ttsLoads' = IF textToSpeech THEN ttsLoads ELSE ttsLoads + 1
    /\ UNCHANGED <<offGlobals, text, voice, buffer, nextToSynthesize, nextToPlay,
                   prefillI, chunk, task, taskStep, synthesisPromises, targetBuffer, src,
                   played, sounded, terminal, cancelled, lateEv, threw, pausedChunks,
                   styleLoads, env>>

\* loadTextToSpeech resolved.
TextToSpeechLoaded(r) ==
    /\ UNCHANGED <<bgVars, libVars>>
    /\ pc[r] = "ttsload"
    /\ textToSpeech' = TRUE
    /\ pc' = [pc EXCEPT ![r] = "style"]
    /\ UNCHANGED <<audioContext, currentStyle, currentVoice, activeRequestId, audioQueue,
                   nextPlayTime, isPlaying, text, voice, buffer, nextToSynthesize,
                   nextToPlay, prefillI, chunk, task, taskStep, synthesisPromises, targetBuffer, src,
                   hist, env>>

\* loadTextToSpeech rejected (a model file is missing).
TextToSpeechLoadFails(r) ==
    /\ UNCHANGED <<bgVars, libVars>>
    /\ pc[r] = "ttsload"
    /\ faultsLeft > 0
    /\ faultsLeft' = faultsLeft - 1
    /\ Throw(r)
    /\ UNCHANGED <<offGlobals, text, voice, buffer, nextToSynthesize, nextToPlay,
                   prefillI, chunk, task, taskStep, synthesisPromises, targetBuffer, src, played,
                   sounded, terminal, cancelled, lateEv, pausedChunks, styleLoads, ttsLoads, nextReq, reqsLeft, chunksLeft, cmdsLeft, envVoices>>

\* ensureVoiceStyle(voice): the cached style, or await loadVoiceStyle.
EnsureVoiceStyle(r) ==
    /\ UNCHANGED <<bgVars, libVars>>
    /\ pc[r] = "style"
    /\ IF currentStyle # NoVoice /\ currentVoice = voice[r]
       THEN /\ pc' = [pc EXCEPT ![r] = "reset"]
            /\ UNCHANGED styleLoads
       ELSE /\ pc' = [pc EXCEPT ![r] = "styleload"]
            /\ styleLoads' = Append(styleLoads, voice[r])
    /\ UNCHANGED <<offGlobals, text, voice, buffer, nextToSynthesize, nextToPlay,
                   prefillI, chunk, task, taskStep, synthesisPromises, targetBuffer, src, played,
                   sounded, terminal, cancelled, lateEv, threw, pausedChunks, ttsLoads, env>>

\* loadVoiceStyle resolved: currentStyle and currentVoice are set together.
VoiceStyleLoaded(r) ==
    /\ UNCHANGED <<bgVars, libVars>>
    /\ pc[r] = "styleload"
    /\ currentStyle' = voice[r]
    /\ currentVoice' = voice[r]
    /\ pc' = [pc EXCEPT ![r] = "reset"]
    /\ UNCHANGED <<audioContext, textToSpeech, activeRequestId, audioQueue, nextPlayTime,
                   isPlaying, text, voice, buffer, nextToSynthesize, nextToPlay, prefillI,
                   chunk, task, taskStep, synthesisPromises, targetBuffer, src, hist, env>>

VoiceStyleLoadFails(r) ==
    /\ UNCHANGED <<bgVars, libVars>>
    /\ pc[r] = "styleload"
    /\ faultsLeft > 0
    /\ faultsLeft' = faultsLeft - 1
    /\ Throw(r)
    /\ UNCHANGED <<offGlobals, text, voice, buffer, nextToSynthesize, nextToPlay,
                   prefillI, chunk, task, taskStep, synthesisPromises, targetBuffer, src, played,
                   sounded, terminal, cancelled, lateEv, pausedChunks, styleLoads, ttsLoads, nextReq, reqsLeft, chunksLeft, cmdsLeft, envVoices>>

\* stopAllAudio(); isPlaying = true; getChunks; await debug('text-chunks').
ResetAudio(r) ==
    /\ UNCHANGED <<bgVars, libVars>>
    /\ pc[r] = "reset"
    /\ stopAllAudio(TRUE)
    /\ pc' = [pc EXCEPT ![r] = "chunks"]
    /\ UNCHANGED <<audioContext, textToSpeech, currentStyle, currentVoice,
                   activeRequestId, text, voice, buffer, nextToSynthesize, nextToPlay,
                   prefillI, chunk, task, taskStep, synthesisPromises, targetBuffer, hist, env>>

\* A faulty variant: a text without chunks is not refused and the request goes
\* on to its completion.
NoChunksCompletes(r) ==
    /\ UNCHANGED <<bgVars, libVars>>
    /\ pc[r] = "chunks"
    /\ totalChunks(r) = 0
    /\ pc' = [pc EXCEPT ![r] = "ending"]
    /\ UNCHANGED <<offGlobals, text, voice, buffer, nextToSynthesize, nextToPlay,
                   prefillI, chunk, task, taskStep, synthesisPromises, targetBuffer, src, hist, env>>

\* if (totalChunks === 0) throw
NoChunks(r) ==
    /\ UNCHANGED <<bgVars, libVars>>
    /\ pc[r] = "chunks"
    /\ totalChunks(r) = 0
    /\ Throw(r)
    /\ UNCHANGED <<offGlobals, text, voice, buffer, nextToSynthesize, nextToPlay,
                   prefillI, chunk, task, taskStep, synthesisPromises, targetBuffer, src, played,
                   sounded, terminal, cancelled, lateEv, pausedChunks, styleLoads, ttsLoads, env>>

\* buffer = [], nextToSynthesize = nextToPlay = 0; await debug('pre-filling-buffer').
StartPrefill(r) ==
    /\ UNCHANGED <<bgVars, libVars>>
    /\ pc[r] = "chunks"
    /\ totalChunks(r) > 0
    /\ pc' = [pc EXCEPT ![r] = "prefill"]
    /\ UNCHANGED <<offGlobals, text, voice, buffer, nextToSynthesize, nextToPlay,
                   prefillI, chunk, task, taskStep, synthesisPromises, targetBuffer, src, hist, env>>

\* A faulty variant: two chunks are pre-filled whatever the first chunk.
initialBufferSizeTwo(r) == 2

initialBufferSize(r) == IF text[r][1] >= LONG_TEXT_THRESHOLD THEN 1 ELSE 2
actualInitialSize(r) == Min(initialBufferSize(r), totalChunks(r))

\* synthesizeNext() up to its first await: whether it takes a chunk.
synthesizeNextTakes(r) == nextToSynthesize[r] < totalChunks(r) /\ activeRequestId = r

\* The pre-fill loop from counter i: the next synthesizeNext() is awaited, or the
\* loop is over (or broke) and tts-result is sent.
PrefillLoop(r, i) ==
    /\ prefillI' = [prefillI EXCEPT ![r] = i]
    /\ IF i < actualInitialSize(r) /\ synthesizeNextTakes(r)
       THEN /\ task' = [task EXCEPT ![r][nextToSynthesize[r]] = "debug"]
            /\ nextToSynthesize' = [nextToSynthesize EXCEPT ![r] = @ + 1]
            /\ pc' = [pc EXCEPT ![r] = "prefillwait"]
            /\ UNCHANGED lateEv
       ELSE /\ pc' = [pc EXCEPT ![r] = "result"]
            /\ lateEv' = Late(r, "result")
            /\ UNCHANGED <<task, nextToSynthesize>>

Prefill(r) ==
    /\ UNCHANGED <<bgVars, libVars>>
    /\ pc[r] = "prefill"
    /\ PrefillLoop(r, 0)
    /\ UNCHANGED <<offGlobals, text, voice, buffer, nextToPlay, chunk, taskStep,
                   synthesisPromises, targetBuffer, src, played, sounded, terminal, cancelled, threw, pausedChunks, styleLoads, ttsLoads, env>>

\* The awaited synthesizeNext() of the pre-fill loop settled.
awaitedTask(r) == nextToSynthesize[r] - 1

PrefillNext(r) ==
    /\ UNCHANGED <<bgVars, libVars>>
    /\ pc[r] = "prefillwait"
    /\ task[r][awaitedTask(r)] \in {"true", "false"}
    /\ IF task[r][awaitedTask(r)] = "true"
       THEN PrefillLoop(r, prefillI[r] + 1)
       ELSE PrefillLoop(r, actualInitialSize(r))        \* if (!success) break
    /\ UNCHANGED <<offGlobals, text, voice, buffer, nextToPlay, chunk, taskStep,
                   synthesisPromises, targetBuffer, src, played, sounded, terminal, cancelled, threw, pausedChunks, styleLoads, ttsLoads, env>>

PrefillThrows(r) ==
    /\ UNCHANGED <<bgVars, libVars>>
    /\ pc[r] = "prefillwait"
    /\ task[r][awaitedTask(r)] = "thrown"
    /\ Throw(r)
    /\ UNCHANGED <<offGlobals, text, voice, buffer, nextToSynthesize, nextToPlay,
                   prefillI, chunk, task, taskStep, synthesisPromises, targetBuffer, src, played,
                   sounded, terminal, cancelled, lateEv, pausedChunks, styleLoads, ttsLoads, env>>

\* ---------------------------------------------------------- synthesizeNext
\* await debug('synthesizing-chunk') is over: textToSpeech.synthesizeChunk is
\* called (no check of activeRequestId here).
StartInference(r, i) ==
    /\ UNCHANGED <<bgVars, libVars>>
    /\ task[r][i] = "debug"
    /\ task' = [task EXCEPT ![r][i] = "infer"]
    /\ UNCHANGED <<offGlobals, pc, text, voice, buffer, nextToSynthesize, nextToPlay,
                   prefillI, chunk, taskStep, synthesisPromises, targetBuffer, src, hist, env>>

\* One denoising iteration begins: progressCallback(step + 1, totalStep) sends
\* tts-progress for the request, whatever activeRequestId is.
progressCallback(r) == Late(r, "progress")

DenoiseStep(r, i) ==
    /\ UNCHANGED <<bgVars, libVars>>
    /\ task[r][i] = "infer"
    /\ taskStep[r][i] < Steps
    /\ taskStep' = [taskStep EXCEPT ![r][i] = @ + 1]
    /\ lateEv' = progressCallback(r)
    /\ UNCHANGED <<offGlobals, pc, text, voice, buffer, nextToSynthesize, nextToPlay,
                   prefillI, chunk, task, synthesisPromises, targetBuffer, src, played, sounded,
                   terminal, cancelled, threw, pausedChunks, styleLoads, ttsLoads, env>>

\* synthesizeChunk resolved with its waveform and duration: the result is dropped
\* when the request is no longer active, else pushed to the buffer.
InferenceDone(r, i) ==
    /\ UNCHANGED <<bgVars, libVars>>
    /\ task[r][i] = "infer"
    /\ taskStep[r][i] = Steps
    /\ LET d == chunkDuration(text[r][i + 1]) IN
          IF activeRequestId # r
          THEN /\ task' = [task EXCEPT ![r][i] = "false"]
               /\ UNCHANGED buffer
          ELSE /\ buffer' = [buffer EXCEPT ![r] = Append(@, [index |-> i, duration |-> d])]
               /\ task' = [task EXCEPT ![r][i] = "pushed"]
    /\ UNCHANGED <<offGlobals, pc, text, voice, nextToSynthesize, nextToPlay, prefillI,
                   chunk, taskStep, synthesisPromises, targetBuffer, src, hist, env>>

\* An inference stage threw (a session run failed, the vocoder timed out).
InferenceThrows(r, i) ==
    /\ UNCHANGED <<bgVars, libVars>>
    /\ task[r][i] = "infer"
    /\ faultsLeft > 0
    /\ faultsLeft' = faultsLeft - 1
    /\ task' = [task EXCEPT ![r][i] = "thrown"]
    /\ UNCHANGED <<offGlobals, pc, text, voice, buffer, nextToSynthesize, nextToPlay,
                   prefillI, chunk, taskStep, synthesisPromises, targetBuffer, src, hist, nextReq, reqsLeft, chunksLeft, cmdsLeft, envVoices>>

\* await debug('chunk-buffered') is over: synthesizeNext returns true.
ChunkBuffered(r, i) ==
    /\ UNCHANGED <<bgVars, libVars>>
    /\ task[r][i] = "pushed"
    /\ task' = [task EXCEPT ![r][i] = "true"]
    /\ UNCHANGED <<offGlobals, pc, text, voice, buffer, nextToSynthesize, nextToPlay,
                   prefillI, chunk, taskStep, synthesisPromises, targetBuffer, src, hist, env>>

\* ------------------------------------------------------------ the play loop
\* The while condition and the head of the loop body, up to the next await.
LoopHead(r) ==
    IF nextToPlay[r] < totalChunks(r) /\ activeRequestId = r
    THEN IF buffer[r] = <<>>
         THEN /\ pc' = [pc EXCEPT ![r] = "wait"]
              /\ UNCHANGED <<buffer, nextToPlay, chunk, isPlaying, activeRequestId>>
         ELSE /\ chunk' = [chunk EXCEPT ![r] = Head(buffer[r])]
              /\ buffer' = [buffer EXCEPT ![r] = Tail(@)]
              /\ nextToPlay' = [nextToPlay EXCEPT ![r] = @ + 1]
              /\ pc' = [pc EXCEPT ![r] = "notify"]
              /\ UNCHANGED <<isPlaying, activeRequestId>>
    ELSE /\ isPlaying' = FALSE
         /\ activeRequestId' = NoRequest
         /\ pc' = [pc EXCEPT ![r] = "ending"]
         /\ UNCHANGED <<buffer, nextToPlay, chunk>>

\* await notifyBackground(tts-result) is over.
ResultSent(r) ==
    /\ UNCHANGED <<bgVars, libVars>>
    /\ pc[r] = "result"
    /\ LoopHead(r)
    /\ UNCHANGED <<audioContext, textToSpeech, currentStyle, currentVoice, audioQueue,
                   nextPlayTime, text, voice, nextToSynthesize, prefillI, task, taskStep,
                   synthesisPromises, targetBuffer, src, hist, env>>

\* The 50 ms wait for an empty buffer is over.  No specification below takes
\* this step: the loop head never finds the buffer empty (BufferNeverEmpty).
BufferWaitOver(r) ==
    /\ UNCHANGED <<bgVars, libVars>>
    /\ pc[r] = "wait"
    /\ LoopHead(r)
    /\ UNCHANGED <<audioContext, textToSpeech, currentStyle, currentVoice, audioQueue,
                   nextPlayTime, text, voice, nextToSynthesize, prefillI, task, taskStep,
                   synthesisPromises, targetBuffer, src, hist, env>>

\* await debug('playing-chunk') is over: tts-chunk-playing is sent.
NotifyChunkPlaying(r) ==
    /\ UNCHANGED <<bgVars, libVars>>
    /\ pc[r] = "notify"
    /\ played' = [played EXCEPT ![r] = Append(@, chunk[r].index)]
    /\ lateEv' = Late(r, "chunk")
    /\ pc' = [pc EXCEPT ![r] = "launch"]
    /\ UNCHANGED <<offGlobals, text, voice, buffer, nextToSynthesize, nextToPlay,
                   prefillI, chunk, task, taskStep, synthesisPromises, targetBuffer, src, sounded,
                   terminal, cancelled, threw, pausedChunks, styleLoads, ttsLoads, env>>

shortChunksAhead(r) ==
    Cardinality({i \in nextToSynthesize[r]..(Min(nextToSynthesize[r] + 3, totalChunks(r)) - 1) :
                    text[r][i + 1] < SHORT_TEXT_THRESHOLD})

\* avgBufferedDuration < SHORT_DURATION_THRESHOLD, the average being 0 for an
\* empty buffer.
avgBelowThreshold(r) ==
    \/ buffer[r] = <<>>
    \/ SumDur(buffer[r]) < SHORT_DURATION_THRESHOLD * Len(buffer[r])

\* A faulty variant: both conditions are asked for.
getTargetBufferSizeBoth(r) ==
    IF shortChunksAhead(r) >= 2 /\ avgBelowThreshold(r) THEN 4 ELSE 2

getTargetBufferSize(r) ==
    IF shortChunksAhead(r) >= 2 \/ avgBelowThreshold(r) THEN 4 ELSE 2

chunksToSynthesize(r) == Max(0, getTargetBufferSize(r) - Len(buffer[r]))

\* The synthesizeNext() calls of the refill loop that take a chunk: each call
\* runs to its first await, so they take consecutive indices.
launched(r) ==
    IF activeRequestId = r
    THEN nextToSynthesize[r]..(Min(nextToSynthesize[r] + chunksToSynthesize(r), totalChunks(r)) - 1)
    ELSE {}

\* The refill loop: targetBuffer is computed and synthesisPromises holds the
\* launched synthesizeNext() calls.
refill(r) ==
    /\ targetBuffer' = [targetBuffer EXCEPT ![r] = getTargetBufferSize(r)]
    /\ synthesisPromises' = [synthesisPromises EXCEPT ![r] = launched(r)]
    /\ task' = [task EXCEPT ![r] = [i \in ChunkIdx |-> IF i \in launched(r) THEN "debug" ELSE @[i]]]
    /\ nextToSynthesize' = [nextToSynthesize EXCEPT ![r] = @ + Cardinality(launched(r))]

\* await notifyBackground(tts-chunk-playing) is over: the refill tasks are
\* launched and playChunkAndWait starts the chunk's source.
LaunchAndPlay(r) ==
    /\ UNCHANGED <<bgVars, libVars>>
    /\ pc[r] = "launch"
    /\ refill(r)
    /\ audioQueue' = Append(audioQueue, r)
    /\ src' = [src EXCEPT ![r] = "playing"]
    /\ sounded' = [sounded EXCEPT ![r] = Append(@, chunk[r].index)]
    /\ lateEv' = Late(r, "sound")
    /\ pc' = [pc EXCEPT ![r] = "sounding"]
    /\ UNCHANGED <<audioContext, textToSpeech, currentStyle, currentVoice,
                   activeRequestId, nextPlayTime, isPlaying, text, voice, buffer,
                   nextToPlay, prefillI, chunk, taskStep, played, terminal, cancelled,
                   threw, pausedChunks, styleLoads, ttsLoads, env>>

\* The same, but createBuffer / start throws: playChunkAndWait rejects.
LaunchAndPlayThrows(r) ==
    /\ UNCHANGED <<bgVars, libVars>>
    /\ pc[r] = "launch"
    /\ faultsLeft > 0
    /\ faultsLeft' = faultsLeft - 1
    /\ refill(r)
    /\ Throw(r)
    /\ UNCHANGED <<offGlobals, text, voice, buffer, nextToPlay, prefillI, chunk,
                   taskStep, src, played, sounded, terminal, cancelled, lateEv,
                   pausedChunks, styleLoads, ttsLoads, nextReq, reqsLeft, chunksLeft, cmdsLeft, envVoices>>

\* A variant of source.onended that resolves the promise only for a source
\* still in audioQueue, so that a source stopped by pause() never resolves it.
SourceEndedIfQueued(r) ==
    /\ UNCHANGED <<bgVars, libVars>>
    /\ pc[r] = "sounding"
    /\ InQueue(r)
    /\ \/ src[r] = "playing" /\ audioContext = "running"
       \/ src[r] = "stopped"
    /\ audioQueue' = Remove(audioQueue, r)
    /\ src' = [src EXCEPT ![r] = "none"]
    /\ pc' = [pc EXCEPT ![r] = "all"]
    /\ UNCHANGED <<audioContext, textToSpeech, currentStyle, currentVoice,
                   activeRequestId, nextPlayTime, isPlaying, text, voice, buffer,
                   nextToSynthesize, nextToPlay, prefillI, chunk, task, taskStep,
                   synthesisPromises, targetBuffer, hist, env>>

\* source.onended: the source leaves audioQueue if it is still there and the
\* promise of playChunkAndWait resolves.  A playing source ends when its audio
\* has run out, which takes a running context; a stopped source ends anyway.
SourceEnded(r) ==
    /\ UNCHANGED <<bgVars, libVars>>
    /\ pc[r] = "sounding"
    /\ \/ src[r] = "playing" /\ audioContext = "running"
       \/ src[r] = "stopped"
    /\ audioQueue' = Remove(audioQueue, r)
    /\ src' = [src EXCEPT ![r] = "none"]
    /\ pc' = [pc EXCEPT ![r] = "all"]
    /\ UNCHANGED <<audioContext, textToSpeech, currentStyle, currentVoice,
                   activeRequestId, nextPlayTime, isPlaying, text, voice, buffer,
                   nextToSynthesize, nextToPlay, prefillI, chunk, task, taskStep,
                   synthesisPromises, targetBuffer, hist, env>>

\* A faulty variant: the loop goes on when the chunk has ended, without
\* awaiting the synthesis tasks it launched.
AllSettledNotAwaited(r) ==
    /\ UNCHANGED <<bgVars, libVars>>
    /\ pc[r] = "all"
    /\ \A i \in synthesisPromises[r] : task[r][i] # "thrown"
    /\ LoopHead(r)
    /\ UNCHANGED <<audioContext, textToSpeech, currentStyle, currentVoice, audioQueue,
                   nextPlayTime, text, voice, nextToSynthesize, prefillI, task, taskStep,
                   synthesisPromises, targetBuffer, src, hist, env>>

\* await debug('chunk-finished'), then await Promise.all(synthesisPromises).
AllSettled(r) ==
    /\ UNCHANGED <<bgVars, libVars>>
    /\ pc[r] = "all"
    /\ \A i \in synthesisPromises[r] : task[r][i] \in {"true", "false"}
    /\ LoopHead(r)
    /\ UNCHANGED <<audioContext, textToSpeech, currentStyle, currentVoice, audioQueue,
                   nextPlayTime, text, voice, nextToSynthesize, prefillI, task, taskStep,
                   synthesisPromises, targetBuffer, src, hist, env>>

\* A faulty variant: the rejections are dropped (Promise.allSettled) and the loop goes on.
AllRejectedIgnored(r) ==
    /\ UNCHANGED <<bgVars, libVars>>
    /\ pc[r] = "all"
    /\ \E i \in synthesisPromises[r] : task[r][i] = "thrown"
    /\ \A i \in synthesisPromises[r] : task[r][i] \in {"true", "false", "thrown"}
    /\ LoopHead(r)
    /\ UNCHANGED <<audioContext, textToSpeech, currentStyle, currentVoice, audioQueue,
                   nextPlayTime, text, voice, nextToSynthesize, prefillI, task, taskStep,
                   synthesisPromises, targetBuffer, src, hist, env>>

\* Promise.all rejects as soon as one of its promises has rejected.
AllRejected(r) ==
    /\ UNCHANGED <<bgVars, libVars>>
    /\ pc[r] = "all"
    /\ \E i \in synthesisPromises[r] : task[r][i] = "thrown"
    /\ Throw(r)
    /\ UNCHANGED <<offGlobals, text, voice, buffer, nextToSynthesize, nextToPlay,
                   prefillI, chunk, task, taskStep, synthesisPromises, targetBuffer, src, played,
                   sounded, terminal, cancelled, lateEv, pausedChunks, styleLoads, ttsLoads, env>>

\* await debug('all-audio-ended') is over: tts-complete is sent.
SendComplete(r) ==
    /\ UNCHANGED <<bgVars, libVars>>
    /\ pc[r] = "ending"
    /\ terminal' = [terminal EXCEPT ![r] = Append(@, "complete")]
    /\ lateEv' = Late(r, "complete")
    /\ pc' = [pc EXCEPT ![r] = "done"]
    /\ UNCHANGED <<offGlobals, text, voice, buffer, nextToSynthesize, nextToPlay,
                   prefillI, chunk, task, taskStep, synthesisPromises, targetBuffer, src, played,
                   sounded, cancelled, threw, pausedChunks, styleLoads, ttsLoads, env>>

\* A faulty variant: the catch block logs the error and sends nothing.
SendErrorOmitted(r) ==
    /\ UNCHANGED <<bgVars, libVars>>
    /\ pc[r] = "catch"
    /\ pc' = [pc EXCEPT ![r] = "done"]
    /\ UNCHANGED <<offGlobals, text, voice, buffer, nextToSynthesize, nextToPlay,
                   prefillI, chunk, task, taskStep, synthesisPromises, targetBuffer, src, hist, env>>

\* catch: await debug('synthesis-error') is over: tts-error is sent.
SendError(r) ==
    /\ UNCHANGED <<bgVars, libVars>>
    /\ pc[r] = "catch"
    /\ terminal' = [terminal EXCEPT ![r] = Append(@, "error")]
    /\ lateEv' = Late(r, "error")
    /\ pc' = [pc EXCEPT ![r] = "done"]
    /\ UNCHANGED <<offGlobals, text, voice, buffer, nextToSynthesize, nextToPlay,
                   prefillI, chunk, task, taskStep, synthesisPromises, targetBuffer, src, played,
                   sounded, cancelled, threw, pausedChunks, styleLoads, ttsLoads, env>>

\* ------------------------------------------------- pause / resume / stop
\* A faulty variant: pause only suspends the context; what sounds is left in the queue.
pauseSuspendOnly ==
    IF audioContext = "null"
    THEN UNCHANGED <<audioContext, audioQueue, src>>
    ELSE /\ UNCHANGED <<src, audioQueue>>
         /\ audioContext' = IF audioContext = "running" THEN "suspended" ELSE audioContext

\* pause(): nothing without an audio context; else every source in audioQueue
\* is stopped, the queue is emptied and a running context is suspended.
\* audioContext.state changes at the call of suspend() and of resume(), as it
\* does in Chrome, the one browser with offscreen documents.
pause ==
    IF audioContext = "null"
    THEN UNCHANGED <<audioContext, audioQueue, src>>
    ELSE /\ src' = stopSources
         /\ audioQueue' = <<>>
         /\ audioContext' = IF audioContext = "running" THEN "suspended" ELSE audioContext

PauseCmd ==
    /\ UNCHANGED <<bgVars, libVars>>
    /\ cmdsLeft > 0
    /\ cmdsLeft' = cmdsLeft - 1
    /\ pause
    /\ pausedChunks' = [r \in Requests |->
                           IF Sounding(r) THEN pausedChunks[r] \cup {chunk[r].index}
                           ELSE pausedChunks[r]]
    /\ UNCHANGED <<textToSpeech, currentStyle, currentVoice, activeRequestId,
                   nextPlayTime, isPlaying, pc, text, voice, buffer, nextToSynthesize,
                   nextToPlay, prefillI, chunk, task, taskStep, synthesisPromises, targetBuffer,
                   played, sounded, terminal, cancelled, lateEv, threw, styleLoads, ttsLoads,
                   nextReq, reqsLeft, chunksLeft, faultsLeft, envVoices>>

\* resume(): a suspended context is resumed.
resume == audioContext' = IF audioContext = "suspended" THEN "running" ELSE audioContext

ResumeCmd ==
    /\ UNCHANGED <<bgVars, libVars>>
    /\ cmdsLeft > 0
    /\ cmdsLeft' = cmdsLeft - 1
    /\ resume
    /\ UNCHANGED <<textToSpeech, currentStyle, currentVoice, activeRequestId, audioQueue,
                   nextPlayTime, isPlaying, locals, hist, nextReq, reqsLeft, chunksLeft, faultsLeft, envVoices>>

\* routeMessage 'stop': stop(); activeRequestId = null.
StopCmd ==
    /\ UNCHANGED <<bgVars, libVars>>
    /\ cmdsLeft > 0
    /\ cmdsLeft' = cmdsLeft - 1
    /\ stopAllAudio(FALSE)
    /\ activeRequestId' = NoRequest
    /\ cancelled' = [q \in Requests |-> IF q = activeRequestId THEN "stop" ELSE cancelled[q]]
    /\ UNCHANGED <<audioContext, textToSpeech, currentStyle, currentVoice, pc, text,
                   voice, buffer, nextToSynthesize, nextToPlay, prefillI, chunk, task,
                   taskStep, synthesisPromises, targetBuffer, played, sounded, terminal, lateEv, threw,
                   pausedChunks, styleLoads, ttsLoads, nextReq, reqsLeft, chunksLeft, faultsLeft, envVoices>>

\* ============================================ background service worker
\* The service worker is an event loop of its own.  handleContentMessage and
\* handlePopupMessage are async: a handler is suspended at its awaits while
\* other messages are handled.  handleOffscreenMessage has no await.
Handlers == 1..MaxBgCmds
NoTab == 0
Tab == 1
NoHandler == [cmd |-> "none", at |-> "none", id |-> NoRequest]

\* The messages handled are told apart by a sequence bit, so that a message
\* is seen also when it repeats the one before it.
NoMessage == [type |-> "none", to |-> 0, arg |-> 0, seq |-> 0]
Message(type, to, arg, last) == [type |-> type, to |-> to, arg |-> arg, seq |-> 1 - last.seq]

BgStart ==
    /\ playbackState = [status |-> "idle", currentChunk |-> 0, totalChunks |-> 0]
    /\ bgActiveRequestId = NoRequest
    /\ activeTabId = NoTab
    /\ handler = [n \in Handlers |-> NoHandler]
    /\ bgCount = 0
    /\ highlightMsg = NoMessage
    /\ lastMsg = NoMessage
    /\ offPhase = [r \in Requests |-> "none"]

updatePlaybackState(partial) ==
    playbackState' = [f \in DOMAIN playbackState |->
                         IF f \in DOMAIN partial THEN partial[f] ELSE playbackState[f]]

\* The ids of the start requests received so far.
startsReceived == Cardinality({n \in Handlers : handler[n].cmd = "start"})

\* A start-tts / popup-start-tts message arrives: the handler awaits
\* ensureOffscreenReady().  Each request carries a fresh id.
ReceiveStart ==
    /\ bgCount < MaxBgCmds
    /\ startsReceived < MaxRequests
    /\ bgCount' = bgCount + 1
    /\ handler' = [handler EXCEPT ![bgCount + 1] =
                      [cmd |-> "start", at |-> "ready", id |-> startsReceived + 1]]
    /\ UNCHANGED <<offVars, libVars, playbackState, bgActiveRequestId, activeTabId, offPhase,
                   highlightMsg, lastMsg>>

\* A pause-tts, resume-tts or stop-tts message (or its popup twin) arrives:
\* the handler awaits postToOffscreen.
ReceiveControl(c) ==
    /\ bgCount < MaxBgCmds
    /\ bgCount' = bgCount + 1
    /\ handler' = [handler EXCEPT ![bgCount + 1] =
                      [cmd |-> c, at |-> "post", id |-> NoRequest]]
    /\ UNCHANGED <<offVars, libVars, playbackState, bgActiveRequestId, activeTabId, offPhase,
                   highlightMsg, lastMsg>>

\* start: ensureOffscreenReady() returned: the request becomes the active one
\* and the status 'loading'; the handler awaits postToOffscreen.
BeginStart(n) ==
    /\ handler[n].cmd = "start"
    /\ handler[n].at = "ready"
    /\ bgActiveRequestId' = handler[n].id
    /\ activeTabId' = Tab
    /\ updatePlaybackState([status |-> "loading", currentChunk |-> 0, totalChunks |-> 0])
    /\ handler' = [handler EXCEPT ![n].at = "post"]
    /\ UNCHANGED <<offVars, libVars, bgCount, offPhase, highlightMsg, lastMsg>>

\* postToOffscreen: the message is sent; a synthesize message starts the
\* request in the offscreen document.
PostToOffscreen(n) ==
    /\ handler[n].at = "post"
    /\ handler' = [handler EXCEPT ![n].at = "sent"]
    /\ offPhase' = IF handler[n].cmd = "start"
                   THEN [offPhase EXCEPT ![handler[n].id] = "loading"]
                   ELSE offPhase
    /\ UNCHANGED <<offVars, libVars, playbackState, bgActiveRequestId, activeTabId, bgCount,
                   highlightMsg, lastMsg>>

\* await postToOffscreen returned: what the handler does after it.
AfterPost(n) ==
    /\ handler[n].at = "sent"
    /\ handler' = [handler EXCEPT ![n].at = "done"]
    /\ CASE handler[n].cmd = "pause" ->
              /\ updatePlaybackState([status |-> "paused"])
              /\ UNCHANGED <<bgActiveRequestId, activeTabId>>
         [] handler[n].cmd = "resume" ->
              /\ updatePlaybackState([status |-> "playing"])
              /\ UNCHANGED <<bgActiveRequestId, activeTabId>>
         [] handler[n].cmd = "stop" ->
              /\ bgActiveRequestId' = NoRequest
              /\ activeTabId' = NoTab
              /\ updatePlaybackState([status |-> "idle"])
         [] OTHER -> UNCHANGED <<playbackState, bgActiveRequestId, activeTabId>>
    /\ UNCHANGED <<offVars, libVars, bgCount, offPhase, highlightMsg, lastMsg>>

\* A variant of the guard that does not compare the ids.
isActiveAny(id) == bgActiveRequestId # NoRequest

\* handleOffscreenMessage: the guard of every case but tts-error.
isActive(id) == bgActiveRequestId # NoRequest /\ id = bgActiveRequestId

\* sendToTab(activeTabId, { type: 'highlight-chunk', chunkIndex, ... }), when
\* there is an active tab.
sendHighlight(chunkIndex) ==
    IF activeTabId # NoTab
    THEN highlightMsg' = Message("highlight-chunk", activeTabId, chunkIndex, NoMessage)
    ELSE UNCHANGED highlightMsg

\* tts-progress of a request the offscreen document is running.
OnProgress(id, step) ==
    /\ offPhase[id] \in {"loading", "playing"}
    /\ lastMsg' = Message("tts-progress", id, step, lastMsg)
    /\ IF isActive(id)
       THEN updatePlaybackState([currentChunk |-> step, totalChunks |-> Steps])
       ELSE UNCHANGED playbackState
    /\ UNCHANGED <<offVars, libVars, bgActiveRequestId, activeTabId, handler, bgCount, offPhase,
                   highlightMsg>>

\* tts-result: sent once, before the play loop.
OnResult(id) ==
    /\ offPhase[id] = "loading"
    /\ offPhase' = [offPhase EXCEPT ![id] = "playing"]
    /\ lastMsg' = Message("tts-result", id, 0, lastMsg)
    /\ IF isActive(id)
       THEN updatePlaybackState([status |-> "playing"])
       ELSE UNCHANGED playbackState
    /\ UNCHANGED <<offVars, libVars, bgActiveRequestId, activeTabId, handler, bgCount,
                   highlightMsg>>

OnChunkPlaying(id, k) ==
    /\ offPhase[id] = "playing"
    /\ lastMsg' = Message("tts-chunk-playing", id, k, lastMsg)
    /\ IF isActive(id)
       THEN /\ updatePlaybackState([status |-> "playing", currentChunk |-> k])
            /\ sendHighlight(k)
       ELSE UNCHANGED <<playbackState, highlightMsg>>
    /\ UNCHANGED <<offVars, libVars, bgActiveRequestId, activeTabId, handler, bgCount, offPhase>>

OnComplete(id) ==
    /\ offPhase[id] = "playing"
    /\ offPhase' = [offPhase EXCEPT ![id] = "ended"]
    /\ lastMsg' = Message("tts-complete", id, 0, lastMsg)
    /\ IF isActive(id)
       THEN /\ sendHighlight(-1)
            /\ bgActiveRequestId' = NoRequest
            /\ activeTabId' = NoTab
            /\ updatePlaybackState([status |-> "idle"])
       ELSE UNCHANGED <<playbackState, bgActiveRequestId, activeTabId, highlightMsg>>
    /\ UNCHANGED <<offVars, libVars, handler, bgCount>>

\* tts-error: no check of the request id.
OnError(id) ==
    /\ offPhase[id] \in {"loading", "playing"}
    /\ offPhase' = [offPhase EXCEPT ![id] = "ended"]
    /\ lastMsg' = Message("tts-error", id, 0, lastMsg)
    /\ updatePlaybackState([status |-> "error"])
    /\ UNCHANGED <<offVars, libVars, bgActiveRequestId, activeTabId, handler, bgCount,
                   highlightMsg>>

\* ===================================================== TextToSpeech._infer
\* A call of _infer is a coroutine with one await per session run.  Calls are
\* under no lock: the offscreen document launches several synthesizeNext calls
\* without awaiting them, so calls interleave at their awaits.
InferCalls == 1..MaxInfers
Event(name, a, b) == <<name, a, b>>

InferStart ==
    /\ stage = [c \in InferCalls |-> "idle"]
    /\ totalStep = [c \in InferCalls |-> 0]
    /\ inferStep = [c \in InferCalls |-> 0]
    /\ inferLog = [c \in InferCalls |-> <<>>]
    /\ liveTensors = [c \in InferCalls |-> {}]


\* _infer is called: the text is processed and the duration predictor is run.
Infer(c, S) ==
    /\ stage[c] = "idle"
    /\ totalStep' = [totalStep EXCEPT ![c] = S]
    /\ inferLog' = [inferLog EXCEPT ![c] = Append(@, Event("dp", 0, 0))]
    /\ stage' = [stage EXCEPT ![c] = "dp"]
    /\ liveTensors' = [liveTensors EXCEPT ![c] = {"textIdsTensor", "textMaskTensor"}]
    /\ UNCHANGED <<notInferVars, inferStep>>

\* The duration predictor returned: the text encoder is run.
DurationPredicted(c) ==
    /\ stage[c] = "dp"
    /\ inferLog' = [inferLog EXCEPT ![c] = Append(@, Event("textEnc", 0, 0))]
    /\ stage' = [stage EXCEPT ![c] = "textEnc"]
    /\ liveTensors' = [liveTensors EXCEPT ![c] = (@ \cup {"duration"}) \ {"duration"}]
    /\ UNCHANGED <<notInferVars, totalStep, inferStep>>

\* A variant of the loop head that reports the loop counter itself.
denoisingLoopZeroBased(c, k) ==
    /\ inferStep' = [inferStep EXCEPT ![c] = k]
    /\ IF k < totalStep[c]
       THEN /\ inferLog' = [inferLog EXCEPT ![c] =
                               @ \o <<Event("progress", k, totalStep[c]),
                                      Event("vectorEst", 0, 0)>>]
            /\ stage' = [stage EXCEPT ![c] = "vectorEst"]
       ELSE /\ inferLog' = [inferLog EXCEPT ![c] = Append(@, Event("vocoder", 0, 0))]
            /\ stage' = [stage EXCEPT ![c] = "vocoder"]

\* The head of the denoising loop with step = k: progressCallback(k + 1,
\* totalStep) and a run of the vector estimator, or after the loop the run of
\* the vocoder.
denoisingLoop(c, k) ==
    /\ inferStep' = [inferStep EXCEPT ![c] = k]
    /\ IF k < totalStep[c]
       THEN /\ inferLog' = [inferLog EXCEPT ![c] =
                               @ \o <<Event("progress", k + 1, totalStep[c]),
                                      Event("vectorEst", 0, 0)>>]
            /\ stage' = [stage EXCEPT ![c] = "vectorEst"]
       ELSE /\ inferLog' = [inferLog EXCEPT ![c] = Append(@, Event("vocoder", 0, 0))]
            /\ stage' = [stage EXCEPT ![c] = "vocoder"]

\* The tensors held at the await the loop head with step = k goes to, from
\* the tensors held before it: a round creates currentStepTensor and xtTensor
\* for the vector estimator; after the loop textMaskTensor, latentMaskTensor,
\* totalStepTensor and textEmb are disposed and finalXtTensor is created.
loopTensors(c, k, held) ==
    IF k < totalStep[c]
    THEN held \cup {"currentStepTensor", "xtTensor"}
    ELSE (held \ {"textMaskTensor", "latentMaskTensor", "totalStepTensor", "textEmb"})
             \cup {"finalXtTensor"}

\* The text encoder returned: its output text_emb is kept, textIdsTensor is
\* disposed, the noisy latent is sampled, latentMaskTensor and totalStepTensor
\* are created and the loop entered.
TextEncoded(c) ==
    /\ stage[c] = "textEnc"
    /\ denoisingLoop(c, 0)
    /\ liveTensors' = [liveTensors EXCEPT ![c] =
           loopTensors(c, 0, ((@ \cup {"textEmb"}) \ {"textIdsTensor"})
                                 \cup {"latentMaskTensor", "totalStepTensor"})]
    /\ UNCHANGED <<notInferVars, totalStep>>

\* The vector estimator returned: the tensors of the round and the output
\* denoised_latent are disposed, xt is rebuilt and the loop goes round.
VectorEstimated(c) ==
    /\ stage[c] = "vectorEst"
    /\ denoisingLoop(c, inferStep[c] + 1)
    /\ liveTensors' = [liveTensors EXCEPT ![c] =
           loopTensors(c, inferStep[c] + 1,
                       ((@ \ {"currentStepTensor", "xtTensor"}) \cup {"denoised_latent"})
                           \ {"denoised_latent"})]
    /\ UNCHANGED <<notInferVars, totalStep>>

\* The vocoder returned: finalXtTensor and the output wav_tts are disposed and
\* _infer returns { wav, duration }.
Vocoded(c) ==
    /\ stage[c] = "vocoder"
    /\ stage' = [stage EXCEPT ![c] = "returned"]
    /\ liveTensors' = [liveTensors EXCEPT ![c] =
           ((@ \ {"finalXtTensor"}) \cup {"wav_tts"}) \ {"wav_tts"}]
    /\ UNCHANGED <<notInferVars, totalStep, inferStep, inferLog>>

\* The awaited session run rejects (the vocoder's also by its timeout): _infer
\* throws what it threw.  Only the vocoder's await is inside a try, whose catch
\* disposes finalXtTensor.
SessionRunRejects(c) ==
    /\ stage[c] \in {"dp", "textEnc", "vectorEst", "vocoder"}
    /\ stage' = [stage EXCEPT ![c] = "threw"]
    /\ liveTensors' = [liveTensors EXCEPT ![c] =
           IF stage[c] = "vocoder" THEN @ \ {"finalXtTensor"} ELSE @]
    /\ UNCHANGED <<notInferVars, totalStep, inferStep, inferLog>>

\* ================================================ the page highlighter
\* highlight.ts runs in the page: every exported function runs to its end
\* without an await; the only asynchronous step is the word timer.
Elements == 1..MaxElements
HIGHLIGHT_CLASS == "riddi-highlight"
NoElement == 0
undefined == <<"undefined">>

\* A text is held as its parts, the words and the runs of whitespace between
\* them (text.split(/(\s+)/)).  A child of an element is a text node or a
\* span.riddi-word; word tells whether the span has HIGHLIGHT_WORD_CLASS.
IsSpace(part) == part = " "
ElementTexts == {<<"a">>, <<"a.", " ", "b">>, <<" ">>}
TextNode(parts) == [span |-> FALSE, word |-> FALSE, parts |-> parts]
WordSpan(part, hl) == [span |-> TRUE, word |-> hl, parts |-> <<part>>]

\* The serialization of a node and of an element's children (innerHTML).
nodeHTML(n) ==
    IF n.span
    THEN <<IF n.word THEN "<span riddi-word riddi-highlight-word>" ELSE "<span riddi-word>">>
            \o n.parts \o <<"</span>">>
    ELSE n.parts

RECURSIVE serialize(_)
serialize(nodes) ==
    IF nodes = <<>> THEN <<>> ELSE nodeHTML(Head(nodes)) \o serialize(Tail(nodes))

IsTag(tok) == tok \in {"<span riddi-word>", "<span riddi-word riddi-highlight-word>", "</span>"}

\* The parser behind the innerHTML setter: a span element becomes a span, a
\* maximal run of text becomes one text node.
RECURSIVE parseHTML(_, _)
parseHTML(html, run) ==
    IF html = <<>>
    THEN IF run = <<>> THEN <<>> ELSE <<TextNode(run)>>
    ELSE IF IsTag(Head(html))
         THEN (IF run = <<>> THEN <<>> ELSE <<TextNode(run)>>)
              \o <<WordSpan(html[2], Head(html) # "<span riddi-word>")>>
              \o parseHTML(SubSeq(html, 4, Len(html)), <<>>)
         ELSE parseHTML(Tail(html), Append(run, Head(html)))

\* The page and the highlighter's module state as one value.
page ==
    [hasClassAttr |-> hasClassAttr, classList |-> classList, childNodes |-> childNodes,
     articleTextBlocks |-> articleTextBlocks,
     currentHighlightElements |-> currentHighlightElements,
     originalHTMLMap |-> originalHTMLMap, wordHighlightTimeout |-> wordHighlightTimeout,
     currentWordIndex |-> currentWordIndex, currentWords |-> currentWords,
     currentChunkIndex |-> currentChunkIndex, msPerWord |-> msPerWord,
     wordDelay |-> wordDelay, animation |-> animation, visited |-> visited]

innerHTML(p, e) == serialize(p.childNodes[e])
markup(p, e) == <<p.hasClassAttr[e], p.classList[e], innerHTML(p, e)>>

\* element.classList.add(token): the class attribute is set to the new tokens.
classListAdd(p, e, token) ==
    [p EXCEPT !.hasClassAttr[e] = TRUE, !.classList[e] = @ \cup {token}]

\* element.classList.remove(token): the attribute is set to the tokens left,
\* also to none; an element without the attribute and without tokens is left
\* as it is (DOMTokenList update steps).
classListRemove(p, e, token) ==
    [p EXCEPT !.hasClassAttr[e] = @ \/ (p.classList[e] \ {token}) # {},
              !.classList[e] = @ \ {token}]

RECURSIVE removeClassAll(_, _)
removeClassAll(p, es) ==
    IF es = {} THEN p
    ELSE LET e == CHOOSE x \in es : TRUE
         IN removeClassAll(classListRemove(p, e, HIGHLIGHT_CLASS), es \ {e})

\* span.replaceWith(document.createTextNode(span.textContent)).
unwrap(nodes) == [i \in DOMAIN nodes |-> IF nodes[i].span THEN TextNode(nodes[i].parts) ELSE nodes[i]]

\* The loop of clearPageHighlights over currentHighlightElements.
RECURSIVE restoreAll(_, _)
restoreAll(p, els) ==
    IF els = <<>> THEN p
    ELSE LET e == Head(els)
             q == IF p.originalHTMLMap[e] # undefined
                  THEN classListRemove(
                           [p EXCEPT !.childNodes[e] = parseHTML(p.originalHTMLMap[e], <<>>)],
                           e, HIGHLIGHT_CLASS)
                  ELSE p
         IN restoreAll(q, Tail(els))

clearPageHighlights(p) ==
    LET p1 == [p EXCEPT !.wordHighlightTimeout = FALSE, !.wordDelay = 0]
        p2 == restoreAll(p1, p1.currentHighlightElements)
        p3 == [p2 EXCEPT !.currentHighlightElements = <<>>,
                         !.originalHTMLMap = [e \in Elements |-> undefined],
                         !.currentWords = <<>>,
                         !.currentWordIndex = 0]
        p4 == removeClassAll(p3, {e \in Elements : HIGHLIGHT_CLASS \in p3.classList[e]})
    IN [p4 EXCEPT !.childNodes = [e \in Elements |-> unwrap(p4.childNodes[e])]]

highlightElement(p, e) ==
    LET p1 == IF p.originalHTMLMap[e] = undefined
              THEN [p EXCEPT !.originalHTMLMap[e] = innerHTML(p, e)]
              ELSE p
        p2 == [p1 EXCEPT !.currentHighlightElements = Append(@, e)]
    IN classListAdd(p2, e, HIGHLIGHT_CLASS)

RECURSIVE textContent(_)
textContent(nodes) ==
    IF nodes = <<>> THEN <<>> ELSE Head(nodes).parts \o textContent(Tail(nodes))

HasWords(parts) == \E i \in DOMAIN parts : ~IsSpace(parts[i])

\* The nodes that take the place of one text node: a text node for each run of
\* whitespace, a new span.riddi-word for each word.
RECURSIVE wrapParts(_)
wrapParts(parts) ==
    IF parts = <<>> THEN <<>>
    ELSE <<[node |-> IF IsSpace(Head(parts)) THEN TextNode(<<Head(parts)>>)
                     ELSE WordSpan(Head(parts), FALSE),
            fresh |-> ~IsSpace(Head(parts))]>> \o wrapParts(Tail(parts))

\* The tree walker takes the text nodes that hold a word and are not inside a
\* span.riddi-word; every other node stays.
RECURSIVE wrapNodes(_)
wrapNodes(nodes) ==
    IF nodes = <<>> THEN <<>>
    ELSE (IF ~Head(nodes).span /\ HasWords(Head(nodes).parts)
          THEN wrapParts(Head(nodes).parts)
          ELSE <<[node |-> Head(nodes), fresh |-> FALSE]>>) \o wrapNodes(Tail(nodes))

RECURSIVE freshSpans(_, _, _)
freshSpans(e, wrapped, i) ==
    IF i > Len(wrapped) THEN <<>>
    ELSE (IF wrapped[i].fresh THEN <<<<e, i>>>> ELSE <<>>) \o freshSpans(e, wrapped, i + 1)

\* wrapWordsInElement(container), for a container in the document.
wrapWordsInElement(p, e) ==
    LET p1 == [p EXCEPT !.currentWords = <<>>, !.currentWordIndex = 0]
        p2 == IF HIGHLIGHT_CLASS \in p1.classList[e] THEN p1
              ELSE classListAdd(p1, e, HIGHLIGHT_CLASS)
        wrapped == wrapNodes(p2.childNodes[e])
    IN IF ~HasWords(textContent(p2.childNodes[e])) THEN p2
       ELSE [p2 EXCEPT !.childNodes[e] = [i \in DOMAIN wrapped |-> wrapped[i].node],
                       !.currentWords = freshSpans(e, wrapped, 1)]

\* The span at currentWordIndex gets HIGHLIGHT_WORD_CLASS, every other word
\* span loses it.
highlightCurrentWord(p) ==
    [p EXCEPT !.childNodes = [e \in Elements |-> [i \in DOMAIN p.childNodes[e] |->
        IF \E k \in DOMAIN p.currentWords : p.currentWords[k] = <<e, i>>
        THEN [p.childNodes[e][i] EXCEPT !.word =
                 p.currentWords[p.currentWordIndex + 1] = <<e, i>>]
        ELSE p.childNodes[e][i]]]]

\* Math.round(a / b) for a >= 0 and b > 0: halves go up.
roundDiv(a, b) == (2 * a + b) \div (2 * b)

\* /[.!?]$/.test(wordText.trim()), a word being a letter or a letter with one
\* punctuation mark after it.
isSentenceEnd(word) ==
    \E letter \in {"a", "b"}, mark \in {".", "!", "?"} : word = letter \o mark

\* A variant of the pause that takes a tenth of the word time.
sentenceEndPauseTenth(ms) == roundDiv(ms, 10)

\* sentenceEndPause = Math.round(msPerWord * 0.25).
sentenceEndPause(ms) == roundDiv(ms, 4)

wordText(p) ==
    LET w == p.currentWords[p.currentWordIndex + 1]
    IN p.childNodes[w[1]][w[2]].parts[1]

\* scheduleNextWord: the timer is set with the delay of the current word.
scheduleNextWord(p) ==
    [p EXCEPT !.wordHighlightTimeout = TRUE,
              !.wordDelay = IF isSentenceEnd(wordText(p))
                            THEN p.msPerWord + sentenceEndPause(p.msPerWord)
                            ELSE p.msPerWord]

\* startWordAnimation: the pending timer is cleared, the word at startIndex
\* is highlighted and the timer of the next word is set.
startWordAnimation(p, durationMs, startIndex) ==
    LET p1 == [p EXCEPT !.wordHighlightTimeout = FALSE, !.wordDelay = 0,
                        !.currentWordIndex = startIndex,
                        !.animation = <<durationMs, startIndex>>,
                        !.visited = <<>>]
        wordsToAnimate == Len(p1.currentWords) - startIndex
        p2 == [p1 EXCEPT !.msPerWord = Max(100, roundDiv(durationMs, wordsToAnimate)),
                         !.visited = <<startIndex>>]
    IN IF wordsToAnimate <= 0 THEN p1
       ELSE scheduleNextWord(highlightCurrentWord(p2))

\* findChunkStartWordIndex: the index of a word span, 0 when none matches.
findChunkStartWordIndex(p, hint) == IF hint < Len(p.currentWords) THEN hint ELSE 0

\* fallbackHighlight: el is the element its three strategies find, if any; all
\* three look at the element's text, so el holds a word.
fallbackHighlight(p, el, durationMs, hint) ==
    IF el = NoElement THEN p
    ELSE LET p1 == wrapWordsInElement(highlightElement(p, el), el)
         IN IF Len(p1.currentWords) > 0
            THEN startWordAnimation(p1, durationMs, findChunkStartWordIndex(p1, hint))
            ELSE p1

\* highlightChunk: matchingBlock is what findBestMatchingBlock returns.
highlightChunk(p, chunkIndex, hasText, durationMs, matchingBlock, el, hint) ==
    LET p1 == clearPageHighlights(p)
        p2 == [p1 EXCEPT !.currentChunkIndex = chunkIndex]
        p3 == wrapWordsInElement(highlightElement(p2, matchingBlock), matchingBlock)
    IN IF ~hasText THEN p1
       ELSE IF matchingBlock = NoElement THEN fallbackHighlight(p2, el, durationMs, hint)
       ELSE IF Len(p3.currentWords) = 0
            THEN fallbackHighlight(clearPageHighlights(p3), el, durationMs, hint)
            ELSE startWordAnimation(p3, durationMs, findChunkStartWordIndex(p3, hint))

SetPage(p) ==
    /\ hasClassAttr' = p.hasClassAttr
    /\ classList' = p.classList
    /\ childNodes' = p.childNodes
    /\ articleTextBlocks' = p.articleTextBlocks
    /\ currentHighlightElements' = p.currentHighlightElements
    /\ originalHTMLMap' = p.originalHTMLMap
    /\ wordHighlightTimeout' = p.wordHighlightTimeout
    /\ currentWordIndex' = p.currentWordIndex
    /\ currentWords' = p.currentWords
    /\ currentChunkIndex' = p.currentChunkIndex
    /\ msPerWord' = p.msPerWord
    /\ wordDelay' = p.wordDelay
    /\ animation' = p.animation
    /\ visited' = p.visited

PageInit(attrs, texts) ==
    /\ hasClassAttr = attrs
    /\ classList = [e \in Elements |-> IF attrs[e] THEN {"own"} ELSE {}]
    /\ childNodes = [e \in Elements |-> <<TextNode(texts[e])>>]
    /\ articleTextBlocks = {}
    /\ currentHighlightElements = <<>>
    /\ originalHTMLMap = [e \in Elements |-> undefined]
    /\ wordHighlightTimeout = FALSE
    /\ currentWordIndex = 0
    /\ currentWords = <<>>
    /\ currentChunkIndex = -1
    /\ msPerWord = 0
    /\ wordDelay = 0
    /\ animation = <<0, 0>>
    /\ visited = <<>>
    /\ markupBefore = [e \in Elements |->
                          <<attrs[e], IF attrs[e] THEN {"own"} ELSE {}, texts[e]>>]
    /\ highlighted = {}

PageStart == PageInit([e \in Elements |-> FALSE], [e \in Elements |-> <<" ">>])

SetArticleElements(blocks) ==
    /\ articleTextBlocks' = blocks
    /\ currentHighlightElements' = <<>>
    /\ originalHTMLMap' = [e \in Elements |-> undefined]
    /\ currentChunkIndex' = -1
    /\ UNCHANGED <<notPageVars, hasClassAttr, classList, childNodes,
                   wordHighlightTimeout, currentWordIndex, currentWords, msPerWord,
                   wordDelay, animation, visited, markupBefore, highlighted>>

HighlightChunk(chunkIndex, hasText, durationMs, matchingBlock, el, hint) ==
    /\ matchingBlock \in articleTextBlocks \cup {NoElement}
    /\ el \in {NoElement} \cup {e \in Elements : HasWords(textContent(childNodes[e]))}
    /\ SetPage(highlightChunk(page, chunkIndex, hasText, durationMs, matchingBlock, el, hint))
    /\ highlighted' = highlighted \cup
          (IF ~hasText THEN {}
           ELSE IF matchingBlock = NoElement THEN {el} \ {NoElement}
           ELSE IF HasWords(textContent(childNodes[matchingBlock])) THEN {matchingBlock}
           ELSE {matchingBlock, el} \ {NoElement})
    /\ UNCHANGED <<notPageVars, markupBefore>>

\* The word timer fires: the next word is highlighted and the timer set
\* again, or the last word was reached.
WordTimerFires ==
    /\ wordHighlightTimeout
    /\ LET p1 == [page EXCEPT !.currentWordIndex = @ + 1]
       IN SetPage(IF p1.currentWordIndex >= Len(p1.currentWords)
                  THEN [p1 EXCEPT !.wordHighlightTimeout = FALSE, !.wordDelay = 0]
                  ELSE scheduleNextWord(highlightCurrentWord(
                           [p1 EXCEPT !.visited = Append(@, p1.currentWordIndex)])))
    /\ UNCHANGED <<notPageVars, markupBefore, highlighted>>

PauseWordAnimation ==
    /\ wordHighlightTimeout' = FALSE
    /\ wordDelay' = 0
    /\ UNCHANGED <<notPageVars, hasClassAttr, classList, childNodes,
                   articleTextBlocks, currentHighlightElements, originalHTMLMap,
                   currentWordIndex, currentWords, currentChunkIndex, msPerWord,
                   animation, visited, markupBefore, highlighted>>

ResetHighlightTracking ==
    /\ SetPage(clearPageHighlights([page EXCEPT !.currentChunkIndex = -1]))
    /\ UNCHANGED <<notPageVars, markupBefore, highlighted>>

\* ============================================================ chunkText
\* A string is a sequence of characters.
WhiteSpace == {" ", "\n", "\t", "\r"}
Upper == {"A", "B", "C", "D", "E", "F", "G", "H", "I", "J", "K", "L", "M", "N", "O", "P", "Q", "R", "S", "T", "U", "V", "W", "X", "Y", "Z"}
Lower == {"a", "b", "c", "d", "e", "f", "g", "h", "i", "j", "k", "l", "m", "n", "o", "p", "q", "r", "s", "t", "u", "v", "w", "x", "y", "z"}
Digits == {"0", "1", "2", "3", "4", "5", "6", "7", "8", "9"}
WordChars == Upper \cup Lower \cup Digits \cup {"_"}
Terminators == {".", "!", "?"}
IsWs(c) == c \in WhiteSpace

\* The abbreviations of the first lookbehind of the sentence pattern.
Abbreviations ==
    {<<"M", "r", ".">>,
     <<"M", "r", "s", ".">>,
     <<"M", "s", ".">>,
     <<"D", "r", ".">>,
     <<"P", "r", "o", "f", ".">>,
     <<"S", "r", ".">>,
     <<"J", "r", ".">>,
     <<"P", "h", ".", "D", ".">>,
     <<"e", "t", "c", ".">>,
     <<"e", ".", "g", ".">>,
     <<"i", ".", "e", ".">>,
     <<"v", "s", ".">>,
     <<"I", "n", "c", ".">>,
     <<"L", "t", "d", ".">>,
     <<"C", "o", ".">>,
     <<"C", "o", "r", "p", ".">>,
     <<"S", "t", ".">>,
     <<"A", "v", "e", ".">>,
     <<"B", "l", "v", "d", ".">>}

\* String.prototype.trim.
trim(str) ==
    LET idx == {i \in DOMAIN str : ~IsWs(str[i])}
    IN IF idx = {} THEN <<>>
       ELSE SubSeq(str, CHOOSE i \in idx : \A j \in idx : i <= j,
                        CHOOSE i \in idx : \A j \in idx : i >= j)

EndsWith(str, suffix) ==
    /\ Len(suffix) <= Len(str)
    /\ SubSeq(str, Len(str) - Len(suffix) + 1, Len(str)) = suffix

\* str.split(/\n\s*\n+/): a match starts at the first newline that has another
\* newline after it with only whitespace between, and ends at the last such
\* newline.
matchEnds(str, i) ==
    {k \in (i + 1)..Len(str) : str[k] = "\n" /\ \A m \in (i + 1)..(k - 1) : IsWs(str[m])}

\* A variant that takes every newline for a paragraph boundary.
matchStartsAnyNewline(str) == {i \in DOMAIN str : str[i] = "\n"}

matchStarts(str) == {i \in DOMAIN str : str[i] = "\n" /\ matchEnds(str, i) # {}}

RECURSIVE splitParagraphs(_)
splitParagraphs(str) ==
    IF matchStarts(str) = {} THEN <<str>>
    ELSE LET i == CHOOSE x \in matchStarts(str) : \A y \in matchStarts(str) : x <= y
             k == CHOOSE x \in matchEnds(str, i) \cup {i} :
                     \A y \in matchEnds(str, i) \cup {i} : x >= y
         IN <<SubSeq(str, 1, i - 1)>> \o splitParagraphs(SubSeq(str, k + 1, Len(str)))

\* (?<!Mr\.|Mrs\.|...): the text before position i ends with an abbreviation.
\* A variant without this lookbehind.
afterNoAbbreviation(str, i) == FALSE

afterAbbreviation(str, i) ==
    \E a \in Abbreviations : EndsWith(SubSeq(str, 1, i - 1), a)

\* (?<!\b[A-Z]\.): the text before position i ends with a capital letter that
\* begins a word, and a full stop.
afterInitial(str, i) ==
    /\ i >= 3
    /\ str[i - 1] = "."
    /\ str[i - 2] \in Upper
    /\ i = 3 \/ str[i - 3] \notin WordChars

\* The sentence pattern matches at i: whitespace after '.', '!' or '?' that
\* neither lookbehind forbids.  The match is the whole run of whitespace.
sentenceBreak(str, i) ==
    /\ i >= 2
    /\ IsWs(str[i])
    /\ str[i - 1] \in Terminators
    /\ ~afterAbbreviation(str, i)
    /\ ~afterInitial(str, i)

RECURSIVE splitSentences(_, _)
splitSentences(str, from) ==
    LET breaks == {i \in from..Len(str) : sentenceBreak(str, i)}
    IN IF breaks = {} THEN <<SubSeq(str, from, Len(str))>>
       ELSE LET i == CHOOSE x \in breaks : \A y \in breaks : x <= y
                run == {j \in i..Len(str) : \A m \in i..j : IsWs(str[m])}
                j == CHOOSE x \in run : \A y \in run : x >= y
            IN <<SubSeq(str, from, i - 1)>> \o splitSentences(str, j + 1)

\* Two variants of the loop over the sentences: one that forgets the joining
\* space in its length test, one that pushes currentChunk also when empty.
RECURSIVE packSentencesNoSpace(_, _, _)
packSentencesNoSpace(sentences, currentChunk, budget) ==
    IF sentences = <<>>
    THEN IF currentChunk # <<>> THEN <<trim(currentChunk)>> ELSE <<>>
    ELSE IF Len(currentChunk) + Len(Head(sentences)) <= budget
         THEN packSentencesNoSpace(Tail(sentences),
                  (IF currentChunk # <<>> THEN currentChunk \o <<" ">> ELSE <<>>)
                      \o Head(sentences), budget)
         ELSE (IF currentChunk # <<>> THEN <<trim(currentChunk)>> ELSE <<>>)
                  \o packSentencesNoSpace(Tail(sentences), Head(sentences), budget)

RECURSIVE packSentencesPushAll(_, _, _)
packSentencesPushAll(sentences, currentChunk, budget) ==
    IF sentences = <<>>
    THEN <<trim(currentChunk)>>
    ELSE IF Len(currentChunk) + Len(Head(sentences)) + 1 <= budget
         THEN packSentencesPushAll(Tail(sentences),
                  (IF currentChunk # <<>> THEN currentChunk \o <<" ">> ELSE <<>>)
                      \o Head(sentences), budget)
         ELSE <<trim(currentChunk)>>
                  \o packSentencesPushAll(Tail(sentences), Head(sentences), budget)

\* The loop over the sentences of a long paragraph.
RECURSIVE packSentences(_, _, _)
packSentences(sentences, currentChunk, budget) ==
    IF sentences = <<>>
    THEN IF currentChunk # <<>> THEN <<trim(currentChunk)>> ELSE <<>>
    ELSE IF Len(currentChunk) + Len(Head(sentences)) + 1 <= budget
         THEN packSentences(Tail(sentences),
                  (IF currentChunk # <<>> THEN currentChunk \o <<" ">> ELSE <<>>)
                      \o Head(sentences), budget)
         ELSE (IF currentChunk # <<>> THEN <<trim(currentChunk)>> ELSE <<>>)
                  \o packSentences(Tail(sentences), Head(sentences), budget)

\* The body of the loop over the paragraphs.
chunkParagraph(paragraph, budget) ==
    LET par == trim(paragraph)
    IN IF par = <<>> THEN <<>>
       ELSE IF Len(par) <= budget THEN <<par>>
       ELSE packSentences(splitSentences(par, 1), <<>>, budget)

RECURSIVE chunkParagraphs(_, _)
chunkParagraphs(paragraphs, budget) ==
    IF paragraphs = <<>> THEN <<>>
    ELSE chunkParagraph(Head(paragraphs), budget)
            \o chunkParagraphs(Tail(paragraphs), budget)

chunkText(str, budget) ==
    chunkParagraphs(SelectSeq(splitParagraphs(trim(str)), LAMBDA par : trim(par) # <<>>),
                    budget)

ChunkStart ==
    /\ rawText = <<>>
    /\ maxLen = 1
    /\ chunks = <<>>
    /\ chunked = FALSE

\* The call of chunkText(rawText, maxLen) returns.
ChunkText ==
    /\ ~chunked
    /\ chunks' = chunkText(rawText, maxLen)
    /\ chunked' = TRUE
    /\ UNCHANGED <<notChunkVars, rawText, maxLen>>

\* The caller looks at the chunks and lets go of them.
ChunksRead ==
    /\ chunked
    /\ chunks' = <<>>
    /\ chunked' = FALSE
    /\ UNCHANGED <<notChunkVars, rawText, maxLen>>

\* ======================================== UnicodeProcessor.preprocessText
\* Characters outside ASCII, the quotation mark, the backslash and the grave
\* accent are written by their code points.
\* text.normalize('NFKD'), for the characters of PlainChars: n with tilde
\* decomposes into n and the combining tilde, the others stay.
nfkdChar(c) == IF c = "U+00F1" THEN <<"n", "U+0303">> ELSE <<c>>

RECURSIVE nfkd(_)
nfkd(str) == IF str = <<>> THEN <<>> ELSE nfkdChar(Head(str)) \o nfkd(Tail(str))

\* Of the ranges of emojiPattern, the characters the model uses.
EmojiChars == {"U+263A", "U+2606", "U+1F600"}
CombiningMarks ==
    {"U+0302", "U+0303", "U+0304", "U+0305", "U+0306", "U+0307", "U+0308", "U+030A",
     "U+030B", "U+030C", "U+0327", "U+0328", "U+0329", "U+032A", "U+032B", "U+032C",
     "U+032D", "U+032E", "U+032F"}
Symbols == {"U+2665", "U+2606", "U+2661", "U+00A9", "U+005C"}
FinalPunctuation ==
    {".", "!", "?", ";", ":", ",", "'", "U+0022", ")", "]", "}", "U+2026", "U+3002",
     "U+300D", "U+300F", "U+3011", "U+3009", "U+300B", "U+203A", "U+00BB"}

\* str.replace(/[...]/g, '') for a class of characters.
removeAll(str, class) == SelectSeq(str, LAMBDA c : c \notin class)

\* str.replaceAll(k, v): the matches are taken from the left and do not overlap.
RECURSIVE replaceAll(_, _, _)
replaceAll(str, k, v) ==
    IF Len(str) < Len(k) THEN str
    ELSE IF SubSeq(str, 1, Len(k)) = k
         THEN v \o replaceAll(SubSeq(str, Len(k) + 1, Len(str)), k, v)
         ELSE <<Head(str)>> \o replaceAll(Tail(str), k, v)

\* for (const [k, v] of Object.entries(table)) str = str.replaceAll(k, v)
RECURSIVE replaceEach(_, _)
replaceEach(str, table) ==
    IF table = <<>> THEN str
    ELSE replaceEach(replaceAll(str, Head(table)[1], Head(table)[2]), Tail(table))

replacements ==
    << <<<<"U+2013">>, <<"-">>>>, <<<<"U+2011">>, <<"-">>>>, <<<<"U+2014">>, <<"-">>>>,
       <<<<"U+00AF">>, <<" ">>>>, <<<<"_">>, <<" ">>>>, <<<<"U+0022">>, <<"U+0022">>>>,
       <<<<"U+2018">>, <<"'">>>>, <<<<"U+2019">>, <<"'">>>>, <<<<"U+00B4">>, <<"'">>>>,
       <<<<"U+0060">>, <<"'">>>>, <<<<"[">>, <<" ">>>>, <<<<"]">>, <<" ">>>>,
       <<<<"|">>, <<" ">>>>, <<<<"/">>, <<" ">>>>, <<<<"#">>, <<" ">>>>,
       <<<<"U+2192">>, <<" ">>>>, <<<<"U+2190">>, <<" ">>>> >>

exprReplacements ==
    << <<<<"@">>, <<" ", "a", "t", " ">>>>,
       <<<<"e", ".", "g", ".", ",">>,
         <<"f", "o", "r", " ", "e", "x", "a", "m", "p", "l", "e", ",", " ">>>>,
       <<<<"i", ".", "e", ".", ",">>, <<"t", "h", "a", "t", " ", "i", "s", ",", " ">>>> >>

\* The replacements of a space before a punctuation mark, then of doubled quotes.
spacingReplacements ==
    << <<<<" ", ",">>, <<",">>>>, <<<<" ", ".">>, <<".">>>>, <<<<" ", "!">>, <<"!">>>>,
       <<<<" ", "?">>, <<"?">>>>, <<<<" ", ";">>, <<";">>>>, <<<<" ", ":">>, <<":">>>>,
       <<<<" ", "'">>, <<"'">>>>,
       <<<<"U+0022", "U+0022">>, <<"U+0022">>>>, <<<<"'", "'">>, <<"'">>>>, <<<<"U+0060", "U+0060">>, <<"U+0060">>>> >>

\* str.replace(/\s+/g, ' ')
RECURSIVE collapseWhitespace(_)
collapseWhitespace(str) ==
    IF str = <<>> THEN <<>>
    ELSE IF IsWs(Head(str))
         THEN IF Len(str) >= 2 /\ IsWs(str[2])
              THEN collapseWhitespace(Tail(str))
              ELSE <<" ">> \o collapseWhitespace(Tail(str))
         ELSE <<Head(str)>> \o collapseWhitespace(Tail(str))

preprocessText(str) ==
    LET decomposed == nfkd(str)
        noEmoji == removeAll(decomposed, EmojiChars)
        replaced == replaceEach(noEmoji, replacements)
        noMarks == removeAll(removeAll(replaced, CombiningMarks), Symbols)
        expanded == replaceEach(noMarks, exprReplacements)
        spaced == replaceEach(expanded, spacingReplacements)
        trimmed == trim(collapseWhitespace(spaced))
    IN IF trimmed # <<>> /\ trimmed[Len(trimmed)] \in FinalPunctuation
       THEN trimmed
       ELSE trimmed \o <<".">>

NormStart ==
    /\ plainText = <<>>
    /\ normalized = <<>>

\* preprocessText returns: the first call is given plainText, a later one the
\* result of the call before.
PreprocessText ==
    /\ Len(normalized) < MaxPasses
    /\ normalized' = Append(normalized,
                            preprocessText(IF normalized = <<>> THEN plainText
                                           ELSE normalized[Len(normalized)]))
    /\ UNCHANGED <<notNormVars, plainText>>

\* ============================================================ writeWavFile
\* The buffer is the sequence of its bytes; byte offset k is position k + 1.
numChannels == 1
bitsPerSample == 16
HeaderSize == 44

\* view.setUint32(offset, value, true) and view.setUint16(offset, value, true):
\* the four or two low bytes of the value, least significant byte first.
\* A variant that writes the most significant byte first.
uint32BigEndian(value) ==
    <<(value \div 16777216) % 256, (value \div 65536) % 256, (value \div 256) % 256,
      value % 256>>

uint32(value) ==
    <<value % 256, (value \div 256) % 256, (value \div 65536) % 256,
      (value \div 16777216) % 256>>

uint16(value) ==
    LET v == value % 65536
    IN <<v % 256, v \div 256>>

\* writeString: the char codes of 'RIFF', 'WAVE', 'fmt ' and 'data'.
RIFF == <<82, 73, 70, 70>>
WAVE == <<87, 65, 86, 69>>
fmt == <<102, 109, 116, 32>>
data == <<100, 97, 116, 97>>

\* A sample is kept in thousandths.  Math.floor(clamped * 32767), stored in an
\* Int16Array and copied byte by byte.
int16Sample(sample) ==
    LET clamped == IF sample < -1000 THEN -1000 ELSE IF sample > 1000 THEN 1000 ELSE sample
    IN uint16((clamped * 32767) \div 1000)

writeWavFile(samples, rate) ==
    LET byteRate == (rate * numChannels * bitsPerSample) \div 8
        blockAlign == (numChannels * bitsPerSample) \div 8
        dataSize == Len(samples) * 2
        header == RIFF \o uint32(36 + dataSize) \o WAVE \o fmt \o uint32(16) \o uint16(1)
                    \o uint16(numChannels) \o uint32(rate) \o uint32(byteRate)
                    \o uint16(blockAlign) \o uint16(bitsPerSample) \o data
                    \o uint32(dataSize)
    IN [k \in 1..(HeaderSize + dataSize) |->
           IF k <= HeaderSize THEN header[k]
           ELSE int16Sample(samples[(k - HeaderSize + 1) \div 2])[2 - ((k - HeaderSize) % 2)]]

WavStart ==
    /\ audioData = <<>>
    /\ sampleRate = 16000
    /\ wavFile = <<>>

\* The call of writeWavFile(audioData, sampleRate) returns.
WriteWavFile ==
    /\ wavFile = <<>>
    /\ wavFile' = writeWavFile(audioData, sampleRate)
    /\ UNCHANGED <<notWavVars, audioData, sampleRate>>

\* The caller has taken the bytes.
WavFileTaken ==
    /\ wavFile # <<>>
    /\ wavFile' = <<>>
    /\ UNCHANGED <<notWavVars, audioData, sampleRate>>

\* ======================================== TextToSpeech.synthesizeStreaming
\* A call is a coroutine: it awaits a zero-delay timer before every chunk but
\* the first and then the _infer call of the chunk.  The text is given by the
\* number of chunks chunkText makes of it, the style by style.ttl.dims[0].
StreamCalls == 1..MaxStreams

StreamStart ==
    /\ streamPc = [c \in StreamCalls |-> "idle"]
    /\ streamTotal = [c \in StreamCalls |-> 0]
    /\ streamI = [c \in StreamCalls |-> 0]
    /\ streamReady = [c \in StreamCalls |-> <<>>]
    /\ streamLog = [c \in StreamCalls |-> <<>>]

\* A variant of the catch block that goes on with the next chunk.
chunkErrorSkipped(c) ==
    IF streamI[c] + 1 < streamTotal[c]
    THEN /\ streamI' = [streamI EXCEPT ![c] = @ + 1]
         /\ streamPc' = [streamPc EXCEPT ![c] = "yield"]
    ELSE /\ streamPc' = [streamPc EXCEPT ![c] = "returned"]
         /\ UNCHANGED streamI

\* catch (chunkError): the error is logged and thrown again.
chunkError(c) ==
    /\ streamPc' = [streamPc EXCEPT ![c] = "threw"]
    /\ UNCHANGED streamI

\* synthesizeStreaming is called: a style of several speakers throws; a text
\* of no chunk returns; else the first chunk's _infer is called.
SynthesizeStreaming(c, n, dims) ==
    /\ streamPc[c] = "idle"
    /\ IF dims # 1
       THEN /\ streamPc' = [streamPc EXCEPT ![c] = "threw"]
            /\ UNCHANGED <<streamTotal, streamLog>>
       ELSE /\ streamTotal' = [streamTotal EXCEPT ![c] = n]
            /\ IF n > 0
               THEN /\ streamPc' = [streamPc EXCEPT ![c] = "infer"]
                    /\ streamLog' = [streamLog EXCEPT ![c] = Append(@, <<"infer", 0>>)]
               ELSE /\ streamPc' = [streamPc EXCEPT ![c] = "returned"]
                    /\ UNCHANGED streamLog
    /\ UNCHANGED <<notStreamVars, streamI, streamReady>>

\* The zero-delay timer before chunk i > 0 fired: _infer is called.
StreamYielded(c) ==
    /\ streamPc[c] = "yield"
    /\ streamPc' = [streamPc EXCEPT ![c] = "infer"]
    /\ streamLog' = [streamLog EXCEPT ![c] = Append(@, <<"infer", streamI[c]>>)]
    /\ UNCHANGED <<notStreamVars, streamTotal, streamI, streamReady>>

\* _infer returned: onChunkReady(i, ...) is called and the loop goes round.
StreamInferred(c) ==
    /\ streamPc[c] = "infer"
    /\ streamLog' = [streamLog EXCEPT ![c] = Append(@, <<"done", streamI[c]>>)]
    /\ streamReady' = [streamReady EXCEPT ![c] = Append(@, streamI[c])]
    /\ streamI' = [streamI EXCEPT ![c] = @ + 1]
    /\ streamPc' = [streamPc EXCEPT ![c] =
                       IF streamI[c] + 1 < streamTotal[c] THEN "yield" ELSE "returned"]
    /\ UNCHANGED <<notStreamVars, streamTotal>>

\* _infer threw: the catch block runs.
StreamInferThrows(c) ==
    /\ streamPc[c] = "infer"
    /\ streamLog' = [streamLog EXCEPT ![c] = Append(@, <<"thrown", streamI[c]>>)]
    /\ chunkError(c)
    /\ UNCHANGED <<notStreamVars, streamTotal, streamReady>>

\* ================================================= ensureOffscreenReady
\* A call awaits chrome.offscreen.hasDocument(), then, when there is no
\* document, chrome.offscreen.createDocument(), then the promise that the
\* 'ready' message resolves.  A promise is named by the call that made it.
\* The browser keeps one offscreen document per extension: createDocument
\* rejects when there is one or one is being created.
ReadyCalls == 1..MaxReadyCalls
NoPromise == 0

ReadyStart ==
    /\ docState = "none"
    /\ readyMsg = FALSE
    /\ offscreenReady = FALSE
    /\ offscreenReadyPromise = NoPromise
    /\ offscreenReadyResolver = NoPromise
    /\ resolvedPromises = {}
    /\ ensurePc = [c \in ReadyCalls |-> "idle"]
    /\ ensureAwaits = [c \in ReadyCalls |-> NoPromise]

\* ensureOffscreenReady is called: it calls ensureOffscreenDocument, which
\* awaits hasDocument().
EnsureOffscreenReady(c) ==
    /\ ensurePc[c] = "idle"
    /\ ensurePc' = [ensurePc EXCEPT ![c] = "hasDocument"]
    /\ UNCHANGED <<notReadyVars, docState, readyMsg, offscreenReady, offscreenReadyPromise,
                   offscreenReadyResolver, resolvedPromises, ensureAwaits>>

\* ensureOffscreenReady after ensureOffscreenDocument returned: it returns
\* when offscreenReady is set, else it awaits offscreenReadyPromise, which it
\* makes when there is none.
afterDocument(c) ==
    IF offscreenReady
    THEN /\ ensurePc' = [ensurePc EXCEPT ![c] = "returned"]
         /\ UNCHANGED <<offscreenReadyPromise, offscreenReadyResolver, ensureAwaits>>
    ELSE /\ ensurePc' = [ensurePc EXCEPT ![c] = "await"]
         /\ IF offscreenReadyPromise = NoPromise
            THEN /\ offscreenReadyPromise' = c
                 /\ offscreenReadyResolver' = c
                 /\ ensureAwaits' = [ensureAwaits EXCEPT ![c] = c]
            ELSE /\ ensureAwaits' = [ensureAwaits EXCEPT ![c] = offscreenReadyPromise]
                 /\ UNCHANGED <<offscreenReadyPromise, offscreenReadyResolver>>

\* hasDocument() answered.  With a document the call goes on in
\* ensureOffscreenReady; without one it resets the three variables and calls
\* createDocument.  While a document is being created either answer is given.
HasDocumentAnswered(c, hasDoc) ==
    /\ ensurePc[c] = "hasDocument"
    /\ hasDoc \in (CASE docState = "none" -> {FALSE}
                     [] docState = "creating" -> BOOLEAN
                     [] docState = "loaded" -> {TRUE})
    /\ IF hasDoc
       THEN /\ afterDocument(c)
            /\ UNCHANGED <<docState, offscreenReady>>
       ELSE /\ offscreenReady' = FALSE
            /\ offscreenReadyPromise' = NoPromise
            /\ offscreenReadyResolver' = NoPromise
            /\ IF docState = "none"
               THEN /\ docState' = "creating"
                    /\ ensurePc' = [ensurePc EXCEPT ![c] = "create"]
               ELSE /\ ensurePc' = [ensurePc EXCEPT ![c] = "threw"]
                    /\ UNCHANGED docState
            /\ UNCHANGED ensureAwaits
    /\ UNCHANGED <<notReadyVars, readyMsg, resolvedPromises>>

\* The offscreen document has loaded: its script sends 'ready', once.
DocumentLoaded ==
    /\ docState = "creating"
    /\ docState' = "loaded"
    /\ readyMsg' = TRUE
    /\ UNCHANGED <<notReadyVars, offscreenReady, offscreenReadyPromise,
                   offscreenReadyResolver, resolvedPromises, ensurePc, ensureAwaits>>

\* createDocument() resolved: ensureOffscreenDocument returns.
DocumentCreated(c) ==
    /\ ensurePc[c] = "create"
    /\ docState = "loaded"
    /\ afterDocument(c)
    /\ UNCHANGED <<notReadyVars, docState, readyMsg, offscreenReady, resolvedPromises>>

\* handleOffscreenMessage, case 'ready'.
OnReady ==
    /\ readyMsg
    /\ readyMsg' = FALSE
    /\ offscreenReady' = TRUE
    /\ resolvedPromises' = resolvedPromises \cup ({offscreenReadyResolver} \ {NoPromise})
    /\ offscreenReadyResolver' = NoPromise
    /\ UNCHANGED <<notReadyVars, docState, offscreenReadyPromise, ensurePc, ensureAwaits>>

\* await offscreenReadyPromise is over: ensureOffscreenReady returns.
ReadyAwaited(c) ==
    /\ ensurePc[c] = "await"
    /\ ensureAwaits[c] \in resolvedPromises
    /\ ensurePc' = [ensurePc EXCEPT ![c] = "returned"]
    /\ UNCHANGED <<notReadyVars, docState, readyMsg, offscreenReady, offscreenReadyPromise,
                   offscreenReadyResolver, resolvedPromises, ensureAwaits>>

LibStart ==
    InferStart /\ PageStart /\ ChunkStart /\ NormStart /\ WavStart /\ StreamStart /\ ReadyStart

\* ------------------------------------------------------ the specifications
Runs(r) ==
    \/ Synthesize(r)
    \/ EnsureAudioContext(r)
    \/ EnsureTextToSpeech(r)
    \/ TextToSpeechLoaded(r)
    \/ EnsureVoiceStyle(r)
    \/ VoiceStyleLoaded(r)
    \/ ResetAudio(r)
    \/ NoChunks(r)
    \/ StartPrefill(r)
    \/ Prefill(r)
    \/ PrefillNext(r)
    \/ ResultSent(r)
    \/ NotifyChunkPlaying(r)
    \/ LaunchAndPlay(r)
    \/ SourceEnded(r)
    \/ AllSettled(r)
    \/ SendComplete(r)
    \/ SendError(r)

Fails(r) ==
    \/ TextToSpeechLoadFails(r)
    \/ VoiceStyleLoadFails(r)
    \/ LaunchAndPlayThrows(r)
    \/ PrefillThrows(r)
    \/ AllRejected(r)

SynthesisTask(r, i) ==
    \/ StartInference(r, i)
    \/ DenoiseStep(r, i)
    \/ InferenceDone(r, i)
    \/ ChunkBuffered(r, i)

\* One request, with commands and failing steps.
Init ==
    /\ Start
    /\ BgStart
    /\ LibStart
    /\ reqsLeft = 1
    /\ chunksLeft = PlayChunks
    /\ cmdsLeft = MaxCmds
    /\ faultsLeft = MaxFaults
    /\ envVoices = {"M1"}

Next ==
    \/ \E r \in Requests : Runs(r)
    \/ \E r \in Requests : Fails(r)
    \/ \E r \in Requests, i \in ChunkIdx : SynthesisTask(r, i)
    \/ \E r \in Requests, i \in ChunkIdx : InferenceThrows(r, i)
    \/ PauseCmd
    \/ ResumeCmd
    \/ StopCmd

Spec == Init /\ [][Next]_vars

\* Several requests, each received while the earlier ones may still run, and stop.
InitOverlap ==
    /\ Start
    /\ BgStart
    /\ LibStart
    /\ reqsLeft = MaxRequests
    /\ chunksLeft = OverlapChunks
    /\ cmdsLeft = OverlapCmds
    /\ faultsLeft = 0
    /\ envVoices = Voices

NextOverlap ==
    \/ \E r \in Requests : Runs(r)
    \/ \E r \in Requests, i \in ChunkIdx : SynthesisTask(r, i)
    \/ StopCmd

SpecOverlap == InitOverlap /\ [][NextOverlap]_vars

\* One request of up to MaxChunks chunks that runs undisturbed: no command and
\* no failure.
InitOrder ==
    /\ Start
    /\ BgStart
    /\ LibStart
    /\ reqsLeft = 1
    /\ chunksLeft = MaxChunks
    /\ cmdsLeft = 0
    /\ faultsLeft = 0
    /\ envVoices = {"M1"}

NextOrder ==
    \/ \E r \in Requests : Runs(r)
    \/ \E r \in Requests, i \in ChunkIdx : SynthesisTask(r, i)

SpecOrder == InitOrder /\ [][NextOrder]_vars

\* One undisturbed request of up to DepthChunks chunks: enough for the buffer
\* to be filled to its larger target depth.
InitDepth ==
    /\ Start
    /\ BgStart
    /\ LibStart
    /\ reqsLeft = 1
    /\ chunksLeft = DepthChunks
    /\ cmdsLeft = 0
    /\ faultsLeft = 0
    /\ envVoices = {"M1"}

NextDepth ==
    \/ \E r \in Requests : Runs(r)
    \/ \E r \in Requests, i \in ChunkIdx : SynthesisTask(r, i)

SpecDepth == InitDepth /\ [][NextDepth]_vars

\* One request with pause and resume, under the event loop's fairness: a
\* coroutine whose await has resolved is resumed, and an audio source that can
\* end does end.  The user's commands are under no fairness.
InitResume ==
    /\ Start
    /\ BgStart
    /\ LibStart
    /\ reqsLeft = 1
    /\ chunksLeft = ResumeChunks
    /\ cmdsLeft = ResumeCmds
    /\ faultsLeft = 0
    /\ envVoices = {"M1"}

NextResume ==
    \/ \E r \in Requests : Runs(r)
    \/ \E r \in Requests, i \in ChunkIdx : SynthesisTask(r, i)
    \/ PauseCmd
    \/ ResumeCmd

SpecResume ==
    /\ InitResume
    /\ [][NextResume]_vars
    /\ \A r \in Requests : WF_vars(Runs(r))
    /\ \A r \in Requests, i \in ChunkIdx : WF_vars(SynthesisTask(r, i))

\* The service worker, with the messages of its content scripts, its popup and
\* its offscreen document.
InitBg ==
    /\ Start
    /\ BgStart
    /\ LibStart
    /\ reqsLeft = 0
    /\ chunksLeft = 0
    /\ cmdsLeft = 0
    /\ faultsLeft = 0
    /\ envVoices = {}

NextBg ==
    \/ ReceiveStart
    \/ \E c \in {"pause", "resume", "stop"} : ReceiveControl(c)
    \/ \E n \in Handlers : BeginStart(n)
    \/ \E n \in Handlers : PostToOffscreen(n)
    \/ \E n \in Handlers : AfterPost(n)
    \/ \E id \in Requests, step \in 1..Steps : OnProgress(id, step)
    \/ \E id \in Requests : OnResult(id)
    \/ \E id \in Requests, k \in 0..(MaxChunks - 1) : OnChunkPlaying(id, k)
    \/ \E id \in Requests : OnComplete(id)
    \/ \E id \in Requests : OnError(id)

SpecBg == InitBg /\ [][NextBg]_vars

\* The inference calls alone.
InitInfer ==
    /\ Start
    /\ BgStart
    /\ LibStart
    /\ reqsLeft = 0
    /\ chunksLeft = 0
    /\ cmdsLeft = 0
    /\ faultsLeft = 0
    /\ envVoices = {}

NextInfer ==
    \/ \E c \in InferCalls, S \in 1..MaxSteps : Infer(c, S)
    \/ \E c \in InferCalls : DurationPredicted(c)
    \/ \E c \in InferCalls : TextEncoded(c)
    \/ \E c \in InferCalls : VectorEstimated(c)
    \/ \E c \in InferCalls : Vocoded(c)
    \/ \E c \in InferCalls : SessionRunRejects(c)

SpecInfer == InitInfer /\ [][NextInfer]_vars

\* The highlighter on a page of MaxElements elements.
InitPage ==
    /\ Start
    /\ BgStart
    /\ InferStart
    /\ ChunkStart
    /\ NormStart
    /\ WavStart
    /\ StreamStart
    /\ ReadyStart
    /\ \E attrs \in [Elements -> BOOLEAN], texts \in [Elements -> ElementTexts] :
          PageInit(attrs, texts)
    /\ reqsLeft = 0
    /\ chunksLeft = 0
    /\ cmdsLeft = 0
    /\ faultsLeft = 0
    /\ envVoices = {}

NextPage ==
    \/ \E blocks \in SUBSET Elements : SetArticleElements(blocks)
    \/ \E chunkIndex \in 0..1, hasText \in BOOLEAN, matchingBlock, el \in 0..MaxElements,
          hint \in 0..1 : HighlightChunk(chunkIndex, hasText, 1010, matchingBlock, el, hint)
    \/ WordTimerFires
    \/ PauseWordAnimation
    \/ ResetHighlightTracking

SpecPage == InitPage /\ [][NextPage]_vars

\* The word animation: pages whose elements hold one word or three.  The
\* values of durationMs are none, one that the word counts divide to a half
\* and one they divide to a third.
WordTexts == {<<"a.">>, <<"a?", " ", "b!", " ", "a">>}
Durations == {0, 301, 1010}

InitWords ==
    /\ Start
    /\ BgStart
    /\ InferStart
    /\ ChunkStart
    /\ NormStart
    /\ WavStart
    /\ StreamStart
    /\ ReadyStart
    /\ \E texts \in [Elements -> WordTexts] : PageInit([e \in Elements |-> FALSE], texts)
    /\ reqsLeft = 0
    /\ chunksLeft = 0
    /\ cmdsLeft = 0
    /\ faultsLeft = 0
    /\ envVoices = {}

NextWords ==
    \/ \E blocks \in SUBSET Elements : SetArticleElements(blocks)
    \/ \E durationMs \in Durations, matchingBlock, el \in 0..MaxElements, hint \in 0..2 :
          HighlightChunk(0, TRUE, durationMs, matchingBlock, el, hint)
    \/ WordTimerFires
    \/ PauseWordAnimation

SpecWords == InitWords /\ [][NextWords]_vars

\* chunkText alone: every text of up to MaxTextLen characters over TextChars
\* with every maxLen up to MaxBudget, and some longer texts.
TextChars == {"a", "B", ".", " ", "\n"}
ShortTexts == UNION {[1..n -> TextChars] : n \in 0..MaxTextLen}
DrSmith == <<"D", "r", ".", " ", "S", "m", "i", "t", "h", " ", "w", "e", "n", "t", " ", "h", "o", "m", "e", ".", " ", "H", "e", " ", "l", "e", "f", "t", ".">>
LongTexts ==
    {DrSmith,
     <<"G", "o", ".", " ", "D", "o", ".", " ", "S", "t", "o", "p", " ", "n", "o", "w", ".">>,
     <<"J", ".", " ", "K", ".", " ", "L", "e", "e", " ", "e", ".", "g", ".", " ", "r", "a", "n", "!", "\n", "O", "k", "?", " ", "Y", "e", "s", ".">>,
     <<"H", "i", " ", "y", "o", "u", ".", "\n", " ", "\n", "\n", "A", "t", " ", "S", "t", ".", " ", "I", "v", "e", "s", " ", "e", "t", "c", ".", " ", "w", "e", " ", "m", "e", "t", " ", "M", "r", ".", " ", "B", ".", " ", "S", "m", "i", "t", "h", ".", " ", "B", "y", "e", ".">>}
LongBudgets == {8, 20}

InitChunk ==
    /\ Start
    /\ BgStart
    /\ InferStart
    /\ PageStart
    /\ NormStart
    /\ WavStart
    /\ StreamStart
    /\ ReadyStart
    /\ \/ rawText \in ShortTexts /\ maxLen \in 1..MaxBudget
       \/ rawText \in LongTexts /\ maxLen \in LongBudgets
    /\ chunks = <<>>
    /\ chunked = FALSE
    /\ reqsLeft = 0
    /\ chunksLeft = 0
    /\ cmdsLeft = 0
    /\ faultsLeft = 0
    /\ envVoices = {}

NextChunk ==
    \/ ChunkText
    \/ ChunksRead

SpecChunk == InitChunk /\ [][NextChunk]_vars

\* preprocessText alone: every text of up to MaxPlainLen characters over
\* PlainChars, normalized and normalized again.
PlainChars == {"a", " ", ".", "'", "@", "_", "U+00F1", "U+263A"}
PlainTexts == UNION {[1..n -> PlainChars] : n \in 0..MaxPlainLen}

InitNorm ==
    /\ Start
    /\ BgStart
    /\ InferStart
    /\ PageStart
    /\ ChunkStart
    /\ WavStart
    /\ StreamStart
    /\ ReadyStart
    /\ plainText \in PlainTexts
    /\ normalized = <<>>
    /\ reqsLeft = 0
    /\ chunksLeft = 0
    /\ cmdsLeft = 0
    /\ faultsLeft = 0
    /\ envVoices = {}

NextNorm == PreprocessText

SpecNorm == InitNorm /\ [][NextNorm]_vars

\* writeWavFile alone: every list of up to MaxSamples samples over Samples
\* with every rate in Rates, and one second of silence at 16000 Hz.
Samples == {-1500, -1000, -1, 0, 500, 1000}
Rates == {8000, 16000, 24000, 44100}
Silence == [i \in 1..16000 |-> 0]

InitWav ==
    /\ Start
    /\ BgStart
    /\ InferStart
    /\ PageStart
    /\ ChunkStart
    /\ NormStart
    /\ StreamStart
    /\ ReadyStart
    /\ \/ /\ audioData \in UNION {[1..n -> Samples] : n \in 0..MaxSamples}
          /\ sampleRate \in Rates
       \/ /\ audioData = Silence
          /\ sampleRate = 16000
    /\ wavFile = <<>>
    /\ reqsLeft = 0
    /\ chunksLeft = 0
    /\ cmdsLeft = 0
    /\ faultsLeft = 0
    /\ envVoices = {}

NextWav ==
    \/ WriteWavFile
    \/ WavFileTaken

SpecWav == InitWav /\ [][NextWav]_vars

\* synthesizeStreaming alone: MaxStreams calls on texts of up to
\* MaxStreamChunks chunks, any of whose _infer calls may throw.
InitStream ==
    /\ Start
    /\ BgStart
    /\ LibStart
    /\ reqsLeft = 0
    /\ chunksLeft = 0
    /\ cmdsLeft = 0
    /\ faultsLeft = 0
    /\ envVoices = {}

NextStream ==
    \/ \E c \in StreamCalls, n \in 0..MaxStreamChunks, dims \in 1..2 :
          SynthesizeStreaming(c, n, dims)
    \/ \E c \in StreamCalls : StreamYielded(c)
    \/ \E c \in StreamCalls : StreamInferred(c)
    \/ \E c \in StreamCalls : StreamInferThrows(c)

SpecStream == InitStream /\ [][NextStream]_vars

\* ensureOffscreenReady alone: MaxReadyCalls calls, from a service worker
\* that has no offscreen document.  Every step but a new call is taken when
\* it stays possible.
InitReady ==
    /\ Start
    /\ BgStart
    /\ LibStart
    /\ reqsLeft = 0
    /\ chunksLeft = 0
    /\ cmdsLeft = 0
    /\ faultsLeft = 0
    /\ envVoices = {}

ReadyStep ==
    \/ \E c \in ReadyCalls, hasDoc \in BOOLEAN : HasDocumentAnswered(c, hasDoc)
    \/ DocumentLoaded
    \/ \E c \in ReadyCalls : DocumentCreated(c)
    \/ OnReady
    \/ \E c \in ReadyCalls : ReadyAwaited(c)

NextReady ==
    \/ \E c \in ReadyCalls : EnsureOffscreenReady(c)
    \/ ReadyStep

SpecReady == InitReady /\ [][NextReady]_vars /\ WF_vars(ReadyStep)

\* ================================================================ properties
Range(s) == {s[i] : i \in 1..Len(s)}
Count(s, x) == Cardinality({i \in 1..Len(s) : s[i] = x})
Iota(n) == [i \in 1..n |-> i - 1]                       \* <<0, 1, ..., n-1>>
IsPrefix(s, t) == Len(s) <= Len(t) /\ \A i \in 1..Len(s) : s[i] = t[i]

\* The loop head never waits for an empty buffer: the pre-fill and every
\* Promise.all leave a chunk in the buffer of a request that is still active.
BufferNeverEmpty == \A r \in Requests : pc[r] # "wait"

\* A request that ran to completion: not stopped, not superseded, no error.
Completed(r) ==
    /\ pc[r] = "done"
    /\ terminal[r] = <<"complete">>
    /\ cancelled[r] = "no"
    /\ ~threw[r]

\* C1: the tts-chunk-playing events of a request carry the indices 0, 1, ... in
\* increasing order with no gap and no repeat, and all of 0..N-1 once the request
\* has run to completion, in whatever order its synthesizeNext tasks finish.
C1_ChunkPlayingInOrder ==
    \A r \in Requests :
        /\ IsPrefix(played[r], Iota(totalChunks(r)))
        /\ Completed(r) => played[r] = Iota(totalChunks(r))

\* C2: after stop was processed for a request and a new synthesize request was
\* received, no tts-chunk-playing event of the old request has been sent since
\* the stop.
C2_NoOldChunkPlayingAfterStop ==
    \A r \in Requests :
        (cancelled[r] = "stop" /\ nextReq > r) => "chunk" \notin lateEv[r]

\* C3: once a request has been stopped or superseded, playChunkAndWait is not
\* started for it again: none of its chunks begins to sound.
C3_NoSoundAfterCancel ==
    \A r \in Requests : "sound" \notin lateEv[r]

\* C4: after a request has been stopped or superseded, no tts-progress,
\* tts-result or tts-complete message with its id is sent.
C4_NoEventsAfterCancel ==
    \A r \in Requests : lateEv[r] \cap {"progress", "result", "complete"} = {}

\* C5: a request one of whose steps threw ends with tts-error, and after its
\* tts-error it sends no tts-complete and no tts-chunk-playing.
Thrown(r) == threw[r] \/ \E i \in ChunkIdx : task[r][i] = "thrown"

C5_ErrorIsTerminal ==
    /\ [](\A r \in Requests :
            /\ threw[r] => pc[r] = "catch" \/ terminal[r] = <<"error">>
            /\ (pc[r] = "done" /\ Thrown(r)) => terminal[r] = <<"error">>)
    /\ [][\A r \in Requests :
            "error" \in Range(terminal[r]) =>
                played'[r] = played[r] /\ terminal'[r] = terminal[r]]_vars

\* A request whose inference threw after a chunk had been played has sent tts-error.
C5_Witness ==
    \E r \in Requests :
        /\ terminal[r] = <<"error">>
        /\ played[r] # <<>>
        /\ \E i \in ChunkIdx : task[r][i] = "thrown"

\* C6: a synthesizeAndPlay invocation sends at most one terminal message, and
\* exactly one (tts-complete or tts-error) once it has returned.
C6_OneTerminalMessage ==
    \A r \in Requests :
        /\ Len(terminal[r]) <= 1
        /\ pc[r] = "done" => Len(terminal[r]) = 1

C6_Witness ==
    \E r \in Requests : pc[r] = "done" /\ threw[r] /\ terminal[r] = <<"error">>

\* C9: a pause step stops every source in audioQueue, empties the queue and
\* suspends a running context; without an audio context it changes nothing.
C9_PauseIsImmediate ==
    [][PauseCmd =>
          IF audioContext = "null"
          THEN UNCHANGED <<offGlobals, locals>>
          ELSE /\ audioQueue' = <<>>
               /\ \A r \in Requests : InQueue(r) => src'[r] = "stopped"
               /\ audioContext = "running" => audioContext' = "suspended"
               /\ audioContext' # "running"]_vars

\* A pause was processed while a chunk was sounding.
C9_Witness ==
    \E r \in Requests :
        pausedChunks[r] # {} /\ src[r] = "stopped" /\ audioContext = "suspended"

\* C10: a stop step leaves no source in the queue, isPlaying false, nextPlayTime
\* 0 and no active request; taken in such a state it leaves the offscreen
\* state as it is.
StopState ==
    /\ audioQueue = <<>>
    /\ ~isPlaying
    /\ nextPlayTime = 0
    /\ activeRequestId = NoRequest

C10_StopResetsAndIsIdempotent ==
    [][StopCmd => /\ StopState'
                  /\ StopState => UNCHANGED <<offGlobals, locals>>]_vars

\* Stop was processed while a chunk of the request was in the queue.
C10_Witness ==
    \E r \in Requests :
        /\ cancelled[r] = "stop"
        /\ src[r] = "stopped"
        /\ StopState

\* C7: once the status is 'error' it stays 'error' until a start request is
\* processed (the only step that sets 'loading'): no pause, resume or stop
\* command and no offscreen event moves it to another status.
C7_ErrorUntilStart ==
    [][playbackState.status = "error" =>
          playbackState'.status \in {"error", "loading"}]_vars

\* C8: a chunk that was sounding when pause was processed is never started
\* again, and once the context runs again the request goes on to the next chunk
\* and to tts-complete (unless it is paused again).
C8_PauseResumeGoesOn ==
    /\ [](\A r \in Requests : \A k \in pausedChunks[r] : Count(sounded[r], k) = 1)
    /\ \A r \in Requests, k \in ChunkIdx :
          [](k \in pausedChunks[r] /\ audioContext = "running"
               => <>(\/ audioContext = "suspended"
                     \/ /\ terminal[r] = <<"complete">>
                        /\ k + 1 < totalChunks(r) => k + 1 \in Range(played[r])))

\* Chunk 0 was paused, the context runs again, chunk 1 was announced and the
\* request is complete.
C8_Witness ==
    \E r \in Requests :
        /\ 0 \in pausedChunks[r]
        /\ audioContext = "running"
        /\ 1 \in Range(played[r])
        /\ terminal[r] = <<"complete">>

\* The coroutine has not yet reached the pre-fill: nothing but debug-log
\* messages was sent.
BeforePrefill == {"idle", "ctx", "tts", "ttsload", "style", "styleload", "reset", "chunks"}

\* C11: a request whose text has no chunks never gets past the chunk count
\* (so it sends no tts-result), starts no synthesizeNext call, announces and
\* plays no chunk, sends no tts-complete, and has sent exactly one tts-error
\* when it has returned.
C11_NoChunksIsAnError ==
    \A r \in Requests :
        (pc[r] # "idle" /\ totalChunks(r) = 0) =>
            /\ pc[r] \in BeforePrefill \cup {"catch", "done"}
            /\ \A i \in ChunkIdx : task[r][i] = "none"
            /\ played[r] = <<>>
            /\ sounded[r] = <<>>
            /\ terminal[r] \in {<<>>, <<"error">>}
            /\ pc[r] = "done" => terminal[r] = <<"error">>

\* The model and the voice style were loaded, the text had no chunks and the
\* request has returned.
C11_Witness ==
    \E r \in Requests :
        /\ pc[r] = "done"
        /\ totalChunks(r) = 0
        /\ textToSpeech
        /\ currentStyle = voice[r]
        /\ terminal[r] = <<"error">>

\* The number of maximal runs of equal voice ids in the requests received.
voiceRuns == Cardinality({r \in 1..nextReq : r = 1 \/ voice[r] # voice[r - 1]})

\* C13: over a run of consecutive requests with the same voice id the style is
\* loaded at most once, so there are never more loads than runs.
C13_StyleLoadedOncePerRun == Len(styleLoads) <= voiceRuns

\* The events of the denoising iterations k..S of a call with totalStep = S.
RECURSIVE Iterations(_, _)
Iterations(k, S) ==
    IF k > S THEN <<>>
    ELSE <<Event("progress", k, S), Event("vectorEst", 0, 0)>> \o Iterations(k + 1, S)

ExpectedLog(S) ==
    <<Event("dp", 0, 0), Event("textEnc", 0, 0)>> \o Iterations(1, S)
        \o <<Event("vocoder", 0, 0)>>

\* C12: a call of _infer with totalStep = S that has returned has run the
\* duration predictor, the text encoder, S times the denoiser, each run
\* preceded by progressCallback(k, S) for k = 1..S, and the vocoder, in that
\* order and nothing else; a call in flight has run a prefix of that.
C12_InferenceStagesInOrder ==
    \A c \in InferCalls :
        /\ stage[c] # "idle" => IsPrefix(inferLog[c], ExpectedLog(totalStep[c]))
        /\ stage[c] = "returned" => inferLog[c] = ExpectedLog(totalStep[c])

\* A call with two denoising iterations has returned while another call was
\* in flight.
C12_Witness ==
    \E c, d \in InferCalls :
        /\ stage[c] = "returned"
        /\ totalStep[c] = 2
        /\ stage[d] \in {"dp", "textEnc", "vectorEst", "vocoder"}

\* What clearPageHighlights has to leave behind.
Cleared(p) ==
    /\ ~p.wordHighlightTimeout
    /\ p.currentWords = <<>>
    /\ \A e \in Elements :
          /\ HIGHLIGHT_CLASS \notin p.classList[e]
          /\ \A i \in DOMAIN p.childNodes[e] : ~p.childNodes[e][i].span
          /\ e \in highlighted => markup(p, e) = markupBefore[e]

\* C14: in whatever state clearPageHighlights is run, it leaves no word timer
\* pending, no word in the word list, no element with the highlight class or a
\* word span, and every element that had been highlighted with the markup it
\* had before.
C14_ClearUndoesHighlighting == Cleared(clearPageHighlights(page))

\* The sentences of str, as the sentence pattern splits it.
sentencesOf(str) == splitSentences(str, 1)

\* C15: every chunk is at most maxLen long, except a chunk that is one single
\* sentence longer than maxLen.
C15_ChunksWithinMaxLen ==
    chunked =>
        \A i \in DOMAIN chunks :
            \/ Len(chunks[i]) <= maxLen
            \/ Len(sentencesOf(chunks[i])) = 1

\* A paragraph longer than maxLen gave a chunk of two sentences that fits and
\* a chunk of one sentence that does not.
C15_Witness ==
    /\ chunked
    /\ \A i \in DOMAIN rawText : rawText[i] # "\n"
    /\ \E i, j \in DOMAIN chunks :
          /\ Len(chunks[i]) <= maxLen
          /\ Len(sentencesOf(chunks[i])) = 2
          /\ Len(chunks[j]) > maxLen

\* C16: the list of chunks is empty exactly when the text is empty after
\* trimming, and no chunk is empty.
C16_EmptyOnlyForBlankText ==
    chunked =>
        /\ chunks = <<>> <=> trim(rawText) = <<>>
        /\ \A i \in DOMAIN chunks : chunks[i] # <<>>

\* A text of whitespace only gave no chunk.
C16_Witness ==
    /\ chunked
    /\ rawText # <<>>
    /\ trim(rawText) = <<>>
    /\ chunks = <<>>

\* Position i of str lies in a blank-line boundary: in a run of whitespace
\* that holds two newlines or more.
InBoundary(str, i) ==
    /\ IsWs(str[i])
    /\ LET run == {j \in DOMAIN str :
                      \A m \in (IF i < j THEN i ELSE j)..(IF i < j THEN j ELSE i) :
                          IsWs(str[m])}
       IN Cardinality({j \in run : str[j] = "\n"}) >= 2

\* The paragraphs of str: the trimmed stretches of text between blank-line
\* boundaries, in order, without the empty ones.
RECURSIVE paragraphsFrom(_, _)
paragraphsFrom(str, from) ==
    IF from > Len(str) THEN <<>>
    ELSE IF InBoundary(str, from) THEN paragraphsFrom(str, from + 1)
    ELSE LET ends == {j \in from..Len(str) :
                         /\ \A m \in from..j : ~InBoundary(str, m)
                         /\ j = Len(str) \/ InBoundary(str, j + 1)}
             j == CHOOSE x \in ends : TRUE
             par == trim(SubSeq(str, from, j))
         IN (IF par = <<>> THEN <<>> ELSE <<par>>) \o paragraphsFrom(str, j + 1)

\* The words of str: its maximal runs of characters that are not whitespace.
RECURSIVE wordsOf(_)
wordsOf(str) ==
    IF str = <<>> THEN <<>>
    ELSE IF IsWs(Head(str)) THEN wordsOf(Tail(str))
    ELSE LET ends == {j \in DOMAIN str :
                         /\ \A m \in 1..j : ~IsWs(str[m])
                         /\ j = Len(str) \/ IsWs(str[j + 1])}
             j == CHOOSE x \in ends : TRUE
         IN <<SubSeq(str, 1, j)>> \o wordsOf(SubSeq(str, j + 1, Len(str)))

RECURSIVE wordsOfAll(_)
wordsOfAll(strs) ==
    IF strs = <<>> THEN <<>> ELSE wordsOf(Head(strs)) \o wordsOfAll(Tail(strs))

\* cs is made of one group of chunks for each paragraph, in order: the
\* paragraph itself when it fits the budget, and otherwise chunks that hold the
\* words of that paragraph and no other.
RECURSIVE ChunksFollow(_, _, _)
ChunksFollow(paragraphs, cs, budget) ==
    IF paragraphs = <<>> THEN cs = <<>>
    ELSE IF Len(Head(paragraphs)) <= budget
         THEN /\ cs # <<>>
              /\ Head(cs) = Head(paragraphs)
              /\ ChunksFollow(Tail(paragraphs), Tail(cs), budget)
         ELSE \E n \in 1..Len(cs) :
                 /\ wordsOfAll(SubSeq(cs, 1, n)) = wordsOf(Head(paragraphs))
                 /\ ChunksFollow(Tail(paragraphs), SubSeq(cs, n + 1, Len(cs)), budget)

\* C17: a paragraph whose trimmed length is at most maxLen gives exactly one
\* chunk, the trimmed paragraph; no chunk holds text of two paragraphs; the
\* chunks come in the order of the paragraphs.
C17_ChunksFollowParagraphs ==
    chunked => ChunksFollow(paragraphsFrom(rawText, 1), chunks, maxLen)

\* A text of a paragraph that fits and, after a blank line that holds a
\* space, one that does not fit and gave two chunks.
C17_Witness ==
    /\ chunked
    /\ Len(paragraphsFrom(rawText, 1)) = 2
    /\ Len(paragraphsFrom(rawText, 1)[1]) <= maxLen
    /\ Len(paragraphsFrom(rawText, 1)[2]) > maxLen
    /\ Len(chunks) = 3
    /\ \E i \in DOMAIN rawText : rawText[i] = " " /\ InBoundary(rawText, i)

\* str ends with a capital letter that begins a word, and a full stop.
EndsWithInitial(str) ==
    /\ Len(str) >= 2
    /\ str[Len(str)] = "."
    /\ str[Len(str) - 1] \in Upper
    /\ Len(str) = 2 \/ str[Len(str) - 2] \notin WordChars

\* The paragraphs that chunkText splits into sentences.
longParagraphs ==
    LET pars == paragraphsFrom(rawText, 1)
    IN {pars[i] : i \in {j \in DOMAIN pars : Len(pars[j]) > maxLen}}

\* C18: a sentence that is followed by another one ends with '.', '!' or '?',
\* not with a listed abbreviation and not with a single capital initial, and
\* whitespace follows it in the paragraph; "Dr. Smith went home. He left." is
\* split after "home." only.
C18_SentenceBoundaries ==
    chunked =>
        /\ \A par \in longParagraphs :
              LET ss == sentencesOf(par)
              IN /\ wordsOfAll(ss) = wordsOf(par)
                 /\ \A k \in DOMAIN ss : ss[k] = trim(ss[k]) /\ ss[k] # <<>>
                 /\ \A k \in 1..(Len(ss) - 1) :
                       /\ ss[k][Len(ss[k])] \in Terminators
                       /\ \A a \in Abbreviations : ~EndsWith(ss[k], a)
                       /\ ~EndsWithInitial(ss[k])
        /\ rawText = DrSmith /\ maxLen < Len(DrSmith) =>
              /\ sentencesOf(DrSmith) = <<SubSeq(DrSmith, 1, 20), SubSeq(DrSmith, 22, 29)>>
              /\ chunks = sentencesOf(DrSmith)

\* "Dr. Smith went home. He left." was chunked with a maxLen of 20.
C18_Witness ==
    /\ chunked
    /\ rawText = DrSmith
    /\ maxLen = 20
    /\ Len(chunks) = 2

\* C19: preprocessText is idempotent: given its own result, it returns it
\* unchanged.
C19_PreprocessIdempotent ==
    \A k \in 2..Len(normalized) : normalized[k] = normalized[k - 1]

\* What a reader of the file finds at a byte offset: view.getUint32(offset,
\* true) and view.getUint16(offset, true).
getUint32(bytes, offset) ==
    bytes[offset + 1] + 256 * bytes[offset + 2] + 65536 * bytes[offset + 3]
        + 16777216 * bytes[offset + 4]
getUint16(bytes, offset) == bytes[offset + 1] + 256 * bytes[offset + 2]

\* C20: the buffer has 44 + 2*len bytes and its header holds numChannels 1,
\* bitsPerSample 16, sampleRate rate, byteRate 2*rate, blockAlign 2, data size
\* 2*len and RIFF size 36 + 2*len; for 16000 samples at rate 16000 the data
\* size and the byte rate are 32000.
C20_WavHeader ==
    wavFile # <<>> =>
        /\ Len(wavFile) = 44 + 2 * Len(audioData)
        /\ \A k \in DOMAIN wavFile : wavFile[k] \in 0..255
        /\ getUint32(wavFile, 4) = 36 + 2 * Len(audioData)
        /\ getUint16(wavFile, 22) = 1
        /\ getUint32(wavFile, 24) = sampleRate
        /\ getUint32(wavFile, 28) = 2 * sampleRate
        /\ getUint16(wavFile, 32) = 2
        /\ getUint16(wavFile, 34) = 16
        /\ getUint32(wavFile, 40) = 2 * Len(audioData)
        /\ Len(audioData) = 16000 /\ sampleRate = 16000 =>
              /\ getUint32(wavFile, 40) = 32000
              /\ getUint32(wavFile, 28) = 32000

\* The file of 16000 samples at rate 16000 was written.
C20_Witness ==
    /\ wavFile # <<>>
    /\ Len(audioData) = 16000
    /\ sampleRate = 16000

\* The synthesizeChunk calls in flight: called and neither returned nor thrown.
inFlight == {ri \in Requests \X ChunkIdx : task[ri[1]][ri[2]] = "infer"}

\* C21: at most one inference call is in flight in the offscreen document at
\* any time.
C21_OneInferenceInFlight == Cardinality(inFlight) <= 1

\* The chunks of request r whose playChunkAndWait has resolved: those that
\* started to sound, but for the one the coroutine still waits for.
endedChunks(r) ==
    {sounded[r][j] : j \in {k \in DOMAIN sounded[r] :
                               k < Len(sounded[r]) \/ pc[r] # "sounding"}}

\* When tts-chunk-playing has just been sent, no source of the request is left
\* and every chunk notified before has ended.
PacedByPlayback ==
    \A r \in Requests :
        pc[r] = "launch" =>
            /\ src[r] = "none"
            /\ ~InQueue(r)
            /\ \A j \in 1..(Len(played[r]) - 1) : played[r][j] \in endedChunks(r)

\* C22: when tts-chunk-playing has just been sent for chunk k+1, the audio of
\* chunk k has ended, and no other chunk of the request is sounding.
C22_NextChunkAfterEnd ==
    \A r \in Requests :
        pc[r] = "launch" =>
            /\ src[r] = "none"
            /\ chunk[r].index > 0 => (chunk[r].index - 1) \in endedChunks(r)

\* A synthesizeNext call that has taken its chunk and has not settled.
Running(r, i) == task[r][i] \in {"debug", "infer", "pushed"}

\* C23: when the play loop has taken the next chunk from the buffer, and when
\* it has sent tts-chunk-playing for it, no synthesis task of the request is
\* still running: those of the iteration before have all settled.
C23_TasksSettledBeforeNextChunk ==
    \A r \in Requests :
        pc[r] \in {"notify", "launch"} => \A i \in ChunkIdx : ~Running(r, i)

\* The second tts-chunk-playing of a request has been sent after an iteration
\* that launched two synthesis tasks.
C23_Witness ==
    \E r \in Requests :
        /\ pc[r] = "launch"
        /\ Len(played[r]) = 2
        /\ Cardinality(synthesisPromises[r]) = 2

\* C24: in a play iteration the buffer holds no more chunks than targetBuffer,
\* what getTargetBufferSize returned in this iteration (and never fewer than 0).
C24_BufferWithinTarget ==
    \A r \in Requests :
        pc[r] \in {"sounding", "all"} =>
            /\ Len(buffer[r]) >= 0
            /\ Len(buffer[r]) <= targetBuffer[r]

\* The policy of the target depth, from the texts of the chunks not yet given
\* to a synthesis task and the durations of the chunks in the buffer.
shortAmongNextThree(r) ==
    Cardinality({i \in 0..(totalChunks(r) - 1) :
                    /\ nextToSynthesize[r] <= i
                    /\ i < nextToSynthesize[r] + 3
                    /\ text[r][i + 1] < 100})

RECURSIVE totalDuration(_)
totalDuration(b) == IF Len(b) = 0 THEN 0 ELSE b[1].duration + totalDuration(Tail(b))

\* The average duration of the buffered chunks is below 3 seconds; it is 0 for
\* an empty buffer.
averageBelowThree(r) ==
    IF Len(buffer[r]) = 0 THEN 0 < 3 ELSE totalDuration(buffer[r]) < 3 * Len(buffer[r])

policyDepth(r) == IF shortAmongNextThree(r) >= 2 \/ averageBelowThree(r) THEN 4 ELSE 2

\* C25: the target depth a play iteration computes is 4 exactly when at least
\* 2 of the next 3 chunks not yet synthesized are shorter than 100 characters
\* or the buffered chunks last less than 3 seconds on average, and 2 otherwise.
C25_TargetDepthPolicy ==
    [][\A r \in Requests :
          (pc[r] = "launch" /\ pc'[r] # "launch") => targetBuffer'[r] = policyDepth(r)]_vars

\* A play iteration has just computed a target of 4 for short chunks ahead
\* alone: the buffer holds chunks of 3 seconds or more on average.
C25_Witness ==
    \E r \in Requests :
        /\ pc[r] = "sounding"
        /\ targetBuffer[r] = 4
        /\ buffer[r] # <<>>
        /\ ~averageBelowThree(r)
        /\ synthesisPromises[r] # {}
        /\ \A i \in synthesisPromises[r] : task[r][i] = "debug"

\* The chunks of request r that have been synthesized and put in its buffer.
synthesized(r) == {i \in ChunkIdx : task[r][i] \in {"pushed", "true"}}

\* C26: when the first tts-chunk-playing of a request that is not cancelled
\* has just been sent, exactly min(N, k) of its N chunks have been
\* synthesized and no other synthesis has begun, k being 1 for a first chunk
\* of at least 200 characters and 2 otherwise.
C26_PrefillBeforeFirstChunk ==
    \A r \in Requests :
        (pc[r] = "launch" /\ Len(played[r]) = 1 /\ cancelled[r] = "no") =>
            LET N == Len(text[r])
                k == IF text[r][1] >= 200 THEN 1 ELSE 2
            IN /\ Cardinality(synthesized(r)) = (IF N < k THEN N ELSE k)
               /\ \A i \in ChunkIdx : i \notin synthesized(r) => task[r][i] = "none"

\* The first tts-chunk-playing has been sent for a text of two chunks with a
\* long first one: one chunk is synthesized, the other is not begun.
C26_Witness ==
    \E r \in Requests :
        /\ pc[r] = "launch"
        /\ Len(played[r]) = 1
        /\ cancelled[r] = "no"
        /\ Len(text[r]) = 2
        /\ text[r][1] >= 200
        /\ synthesized(r) = {0}

\* Once a request is cancelled, no result is added to its buffer.
CancelledResultDropped ==
    [][\A r \in Requests :
          cancelled[r] # "no" => Len(buffer'[r]) <= Len(buffer[r])]_vars

\* C27: once a request is stopped or superseded, no inference call is started
\* for it and no result is added to its buffer.
C27_NoInferenceAfterCancel ==
    [][\A r \in Requests :
          cancelled[r] # "no" =>
              /\ \A i \in ChunkIdx : task'[r][i] = "infer" => task[r][i] = "infer"
              /\ Len(buffer'[r]) <= Len(buffer[r])]_vars

\* C28: loadTextToSpeech is called at most once in the offscreen document.
C28_ModelsLoadedOnce == ttsLoads <= 1

\* C29: a chunk whose inference has thrown (the vocoder call exceeded its 120
\* seconds) does not abort its request: the coroutine is not in its catch
\* block and tts-error is not sent.
C29_TimeoutFailsOnlyItsChunk ==
    \A r \in Requests :
        (\E i \in ChunkIdx : task[r][i] = "thrown") =>
            /\ pc[r] # "catch"
            /\ "error" \notin Range(terminal[r])

\* A call that returned has disposed every tensor it created or received.
ReturnDisposesAll ==
    \A c \in InferCalls : stage[c] = "returned" => liveTensors[c] = {}

\* C30: when a call of _infer has ended, by returning or by throwing at any
\* stage, none of the tensors it created or received is left undisposed.
C30_TensorsDisposedAtEnd ==
    \A c \in InferCalls : stage[c] \in {"returned", "threw"} => liveTensors[c] = {}

\* The _infer calls of the call that have started and not ended.
streamInFlight(c) ==
    Cardinality({j \in 1..Len(streamLog[c]) : streamLog[c][j][1] = "infer"})
        - Cardinality({j \in 1..Len(streamLog[c]) : streamLog[c][j][1] # "infer"})

\* C31: synthesizeStreaming calls onChunkReady with 0, 1, 2, ... in this
\* order, each index once and only after the _infer call of that chunk has
\* returned, with at most one _infer call running; a call that returned has
\* reported every chunk, and a call whose _infer of chunk i threw has reported
\* the chunks before i only.
C31_StreamingInOrder ==
    \A c \in StreamCalls :
        /\ streamReady[c] = Iota(Len(streamReady[c]))
        /\ \A i \in Range(streamReady[c]) : <<"done", i>> \in Range(streamLog[c])
        /\ streamInFlight(c) <= 1
        /\ streamPc[c] = "returned" => streamReady[c] = Iota(streamTotal[c])
        /\ \A i \in 0..MaxStreamChunks :
              <<"thrown", i>> \in Range(streamLog[c]) =>
                  /\ streamPc[c] = "threw"
                  /\ streamReady[c] = Iota(i)

C31_Witness ==
    \E c, d \in StreamCalls :
        /\ streamPc[c] = "returned"
        /\ Len(streamReady[c]) >= 2
        /\ streamPc[d] = "threw"
        /\ <<"thrown", 1>> \in Range(streamLog[d])

\* The interval the statement gives for the animation under way.
wordInterval == Max(100, roundDiv(animation[1], Len(currentWords) - animation[2]))

\* The word spans of the page that have HIGHLIGHT_WORD_CLASS.
highlightedWords ==
    {w \in UNION {{<<e, i>> : i \in DOMAIN childNodes[e]} : e \in Elements} :
        childNodes[w[1]][w[2]].span /\ childNodes[w[1]][w[2]].word}

C33_ActiveIdClearedByOwner ==
    [][(activeRequestId # NoRequest /\ activeRequestId' = NoRequest) =>
           \/ cmdsLeft' # cmdsLeft
           \/ /\ pc[activeRequestId] # "ending"
              /\ pc'[activeRequestId] = "ending"]_vars

\* C34: when a stop command and after it a start command were received and
\* both handlers have run to their end, and the offscreen document has not
\* yet ended the started request, the started request is the active one and
\* the status is not 'idle'.
C34_StartAfterStopWins ==
    (/\ bgCount = 2
     /\ handler[1].cmd = "stop" /\ handler[1].at = "done"
     /\ handler[2].cmd = "start" /\ handler[2].at = "done"
     /\ offPhase[handler[2].id] \in {"loading", "playing"}) =>
        /\ bgActiveRequestId = handler[2].id
        /\ playbackState.status # "idle"

\* A call that returned did so with the document loaded and its 'ready'
\* handled.
ReturnsWhenReady ==
    \A c \in ReadyCalls :
        ensurePc[c] = "returned" => docState = "loaded" /\ offscreenReady

\* C35: every call of ensureOffscreenReady that was made returns in the end,
\* and none returns before the document is there and has reported 'ready'.
C35_EnsureReadyReturns ==
    /\ []ReturnsWhenReady
    /\ \A c \in ReadyCalls : (ensurePc[c] # "idle") ~> (ensurePc[c] = "returned")

\* The last step handled a message of the offscreen document, of one of the
\* given types, that carries the id of a request that was not the active one.
staleMessage(types) ==
    /\ lastMsg' # lastMsg
    /\ lastMsg'.type \in types
    /\ bgActiveRequestId = NoRequest \/ lastMsg'.to # bgActiveRequestId

\* C36: a tts-progress, tts-result, tts-chunk-playing or tts-complete message
\* of a request that is not the active one changes neither the playback state
\* nor the active request nor the active tab, and no highlight message is
\* sent.
C36_StaleMessagesIgnored ==
    [][staleMessage({"tts-progress", "tts-result", "tts-chunk-playing", "tts-complete"}) =>
           UNCHANGED <<playbackState, bgActiveRequestId, activeTabId, highlightMsg>>]_vars

C36_Witness ==
    /\ lastMsg.type = "tts-chunk-playing"
    /\ bgActiveRequestId # NoRequest
    /\ lastMsg.to # bgActiveRequestId
    /\ playbackState.status = "loading"
    /\ highlightMsg = NoMessage

\* C37: a tts-error message of a request that is not the active one leaves
\* the playback status as it is.
C37_StaleErrorKeepsStatus ==
    [][staleMessage({"tts-error"}) => playbackState'.status = playbackState.status]_vars

\* C38: a status of 'loading', 'playing' or 'paused' comes with an active
\* request.
C38_BusyStatusHasRequest ==
    playbackState.status \in {"loading", "playing", "paused"} =>
        bgActiveRequestId # NoRequest

\* C39: currentChunk changes only when a request starts, to 0, and when a
\* tts-chunk-playing message of the active request is handled, to the chunk
\* index of the message.
C39_CurrentChunkFollowsPlaying ==
    [][playbackState'.currentChunk # playbackState.currentChunk =>
           \/ /\ bgActiveRequestId' # bgActiveRequestId
              /\ playbackState'.currentChunk = 0
           \/ /\ lastMsg' # lastMsg
              /\ lastMsg'.type = "tts-chunk-playing"
              /\ lastMsg'.to = bgActiveRequestId
              /\ playbackState'.currentChunk = lastMsg'.arg]_vars

====
